---- MODULE Spec2Model ----
(***************************************************************************)
(* Model of the swarm engine of torrents-learning: the Piece Store         *)
(* (src/src/storage.ts), the Scheduler (src/src/scheduler.ts), the Peer    *)
(* Session as seen by the scheduler (src/src/peer.ts) and the wiring done  *)
(* by the orchestrator (src/src/client.ts).                                *)
(*                                                                         *)
(* Two specifications are defined:                                         *)
(*   SpecStore  the Piece Store driven through its public addBlock API     *)
(*              with arbitrary arguments, plus the asynchronous            *)
(*              continuation of completePiece (write, sync, bookkeeping);  *)
(*   SpecSwarm  sessions, scheduler and store wired as TorrentClient       *)
(*              wires them, driven by the messages peers send.             *)
(***************************************************************************)
EXTENDS Integers, Sequences, FiniteSets, TLC

\* ------------------------------------------------------------------------
\* Bounds of the model (the torrent that is downloaded, the options)
\* ------------------------------------------------------------------------
TotalLength == 5
PieceLength == 4
BlockSize == 2
MaxVerified == 2

\* ------------------------------------------------------------------------
\* Bytes, content and hashes
\* ------------------------------------------------------------------------
VARIABLE
  torrent            \* what the scheduler and the store are constructed
                     \* with: torrentMeta.length, torrentMeta.pieceLength,
                     \* blockSize and windowSize; it never changes

Byte == {0, 1}

Min(a, b) == IF a < b THEN a ELSE b

Max(a, b) == IF a > b THEN a ELSE b

CeilDiv(a, b) == (a + b - 1) \div b

\* metainfo.ts is not part of the sources; the piece map is taken from the
\* data-model invariants of the specification.
NumPieces == CeilDiv(torrent.length, torrent.pieceLength)

Pieces == 0 .. (NumPieces - 1)

PieceLen(i) ==
  IF i < NumPieces - 1 THEN torrent.pieceLength
  ELSE torrent.length - torrent.pieceLength * (NumPieces - 1)

getFileOffset(pieceIndex) == pieceIndex * torrent.pieceLength

\* The content the torrent describes: byte i of the file.  Buffer.alloc and
\* truncate() produce 0 bytes, so the content is chosen different from 0.
ContentByte(i) == 1

PieceContent(p) == [i \in 1 .. PieceLen(p) |-> ContentByte(getFileOffset(p) + i - 1)]

\* SHA-1 is modelled as an injective digest (no collisions).
Sha1(bytes) == <<"sha1", bytes>>

\* verifiedHashes.get(i): the 20-byte hash of piece i in the metainfo.
verifiedHashes(p) == Sha1(PieceContent(p))

\* Buffer.alloc(n): n zero bytes.
BufferAlloc(n) == [i \in 1 .. n |-> 0]

\* blockData.copy(target, offset): overwrite target from offset on, cut at
\* the end of target.
BufferCopy(target, offset, src) ==
  [i \in 1 .. Len(target) |->
     IF i - 1 >= offset /\ i - 1 < offset + Len(src) THEN src[i - offset]
     ELSE target[i]]

\* Bytes offset .. offset+n-1 of a byte sequence (0-based offset).
Slice(bytes, offset, n) == [i \in 1 .. n |-> bytes[offset + i]]

expectedBlocks(p) == CeilDiv(PieceLen(p), torrent.blockSize)

\* Block offsets of piece p as the scheduler and the client enumerate them.
BlockOffsets(p) == {i * torrent.blockSize : i \in 0 .. (expectedBlocks(p) - 1)}

\* ------------------------------------------------------------------------
\* State of the Piece Store
\* ------------------------------------------------------------------------
VARIABLES
  pieceBuffers,      \* storage.pieceBuffers: piece -> buffer or NoBuffer
  stCompletedPieces, \* storage.completedPieces
  verifiedPieces,    \* storage.verifiedPieces
  writtenBytes,      \* storage.writtenBytes
  file,              \* contents of the output file
  stStage,           \* per piece: where the pending completePiece stands
  stWriting,         \* per piece: the bytes the buffer held when the pending
                     \* fileHandle.write was issued (<<>> if none is pending)
  dlcPending,        \* number of handleDownloadComplete calls in flight
  stEvents,          \* events the store emitted in the last step
  stResult,          \* outcome of the last step: of the addBlock call, or
                     \* of the write / sync that settled
  stCall             \* the (pieceIndex, blockOffset) of the addBlock call of
                     \* the last step if it passed the argument checks

storeVars == <<pieceBuffers, stCompletedPieces, verifiedPieces, writtenBytes,
               file, stStage, stWriting, dlcPending, stEvents, stResult,
               stCall>>

NoBuffer == [none |-> TRUE]

NoCall == [none |-> TRUE]

Stages == {"idle", "write_wait", "sync_wait"}

Ev(type, pieceIndex) == [type |-> type, pieceIndex |-> pieceIndex]

FileSlice(f, p) == Slice(f, getFileOffset(p), PieceLen(p))

StoreInit ==
  /\ pieceBuffers = [p \in Pieces |-> NoBuffer]
  /\ stCompletedPieces = {}
  /\ verifiedPieces = 0
  /\ writtenBytes = 0
  /\ file = BufferAlloc(torrent.length)
  /\ stStage = [p \in Pieces |-> "idle"]
  /\ stWriting = [p \in Pieces |-> <<>>]
  /\ dlcPending = 0
  /\ stEvents = <<>>
  /\ stResult = "none"
  /\ stCall = NoCall

\* ------------------------------------------------------------------------
\* Piece Store operations (src/src/storage.ts)
\*
\* The synchronous code is written as functions from a store (the record of
\* the store's fields) to the store it leaves; the events it emits are
\* appended to stEvents.  The actions assign the fields of the result.
\* ------------------------------------------------------------------------

Store ==
  [pieceBuffers |-> pieceBuffers, stCompletedPieces |-> stCompletedPieces,
   verifiedPieces |-> verifiedPieces, writtenBytes |-> writtenBytes,
   file |-> file, stStage |-> stStage, stWriting |-> stWriting,
   dlcPending |-> dlcPending,
   stEvents |-> stEvents, stResult |-> stResult, stCall |-> stCall]

SetStore(st) ==
  /\ pieceBuffers' = st.pieceBuffers
  /\ stCompletedPieces' = st.stCompletedPieces
  /\ verifiedPieces' = st.verifiedPieces
  /\ writtenBytes' = st.writtenBytes
  /\ file' = st.file
  /\ stStage' = st.stStage
  /\ stWriting' = st.stWriting
  /\ dlcPending' = st.dlcPending
  /\ stEvents' = st.stEvents
  /\ stResult' = st.stResult
  /\ stCall' = st.stCall

\* emit(type, {pieceIndex}).
stEmit(st, type, pieceIndex) ==
  [st EXCEPT !.stEvents = Append(@, Ev(type, pieceIndex))]

\* addBlock, lines 200-214: the argument checks that throw StorageError.
AddBlockRejects(pieceIndex, blockOffset, blockData) ==
  \/ pieceIndex < 0
  \/ pieceIndex >= NumPieces
  \/ blockOffset < 0
  \/ blockOffset >= PieceLen(pieceIndex)
  \/ Len(blockData) # Min(torrent.blockSize, PieceLen(pieceIndex) - blockOffset)

\* addBlock, lines 217-227: get or create the piece buffer.
GetOrCreateBuffer(st, pieceIndex) ==
  IF st.pieceBuffers[pieceIndex] # NoBuffer THEN st.pieceBuffers[pieceIndex]
  ELSE [data |-> BufferAlloc(PieceLen(pieceIndex)),
        receivedBlocks |-> {},
        isComplete |-> FALSE]

AlreadyReceived_never(buffer, blockOffset) == FALSE

\* addBlock, line 230: the duplicate test.
AlreadyReceived(buffer, blockOffset) == blockOffset \in buffer.receivedBlocks

\* completePiece, lines 264-267: the hash comparison.
HashMatches(pieceIndex, data) == Sha1(data) = verifiedHashes(pieceIndex)

HashFailed_keepsBuffer(st, pieceIndex) ==
  stEmit(st, "piece_hash_failed", pieceIndex)

\* completePiece, lines 267-277: the hash-mismatch branch.
HashFailed(st, pieceIndex) ==
  [stEmit(st, "piece_hash_failed", pieceIndex)
     EXCEPT !.pieceBuffers[pieceIndex] = NoBuffer]

\* completePiece, lines 254-282: the part that runs inside addBlock, up to
\* the first await (the write is issued and the function suspends).
completePiece(st, pieceIndex) ==
  IF st.pieceBuffers[pieceIndex] = NoBuffer THEN st
  ELSE IF ~HashMatches(pieceIndex, st.pieceBuffers[pieceIndex].data)
  THEN HashFailed(st, pieceIndex)
  ELSE [st EXCEPT !.stStage[pieceIndex] = "write_wait",
                  !.stWriting[pieceIndex] = st.pieceBuffers[pieceIndex].data]

\* addBlock(pieceIndex, blockOffset, blockData), lines 199-252.
addBlock(st, pieceIndex, blockOffset, blockData) ==
  IF AddBlockRejects(pieceIndex, blockOffset, blockData)
  THEN [st EXCEPT !.stResult = "StorageError", !.stCall = NoCall]
  ELSE
    LET buffer == GetOrCreateBuffer(st, pieceIndex)
        recv == buffer.receivedBlocks \cup {blockOffset}
        data == BufferCopy(buffer.data, blockOffset, blockData)
        full == Cardinality(recv) = expectedBlocks(pieceIndex)
        added == [data |-> data, receivedBlocks |-> recv, isComplete |-> full]
        called == [st EXCEPT !.stResult = "returned",
                             !.stCall = [pieceIndex |-> pieceIndex,
                                         blockOffset |-> blockOffset]]
        stored == [called EXCEPT !.pieceBuffers[pieceIndex] = added]
    IN
    IF AlreadyReceived(buffer, blockOffset)
    THEN [called EXCEPT !.pieceBuffers[pieceIndex] = buffer]
    ELSE stEmit(IF full THEN completePiece(stored, pieceIndex) ELSE stored,
                "block_added", pieceIndex)

\* A call of addBlock as one step of the store.
AddBlock(pieceIndex, blockOffset, blockData) ==
  SetStore(addBlock([Store EXCEPT !.stEvents = <<>>],
                    pieceIndex, blockOffset, blockData))

\* completePiece, lines 308-316: the catch block.
WriteFailed(pieceIndex) ==
  /\ stEvents' = <<Ev("piece_write_failed", pieceIndex)>>
  /\ pieceBuffers' = [pieceBuffers EXCEPT ![pieceIndex] = NoBuffer]
  /\ stStage' = [stStage EXCEPT ![pieceIndex] = "idle"]
  /\ stWriting' = [stWriting EXCEPT ![pieceIndex] = <<>>]
  /\ UNCHANGED <<stCompletedPieces, verifiedPieces, writtenBytes, dlcPending>>

\* What a pending fileHandle.write of the piece can put in the file.  The
\* write was handed the buffer object itself and reads it on the thread
\* pool, while addBlock may copy into the same object: each byte is the one
\* the buffer held when the write was issued or the one it holds now.
WriteOutcomes(pieceIndex) ==
  IF stStage[pieceIndex] # "write_wait" THEN {}
  ELSE {d \in [1 .. PieceLen(pieceIndex) -> Byte] :
          \A i \in 1 .. PieceLen(pieceIndex) :
            \/ d[i] = stWriting[pieceIndex][i]
            \/ d[i] = pieceBuffers[pieceIndex].data[i]}

\* completePiece, line 282: fileHandle.write settles, having written data,
\* and the function goes on to issue the sync.  A failed write is taken to
\* leave the file as it was.
WriteSettles(pieceIndex, ok, data) ==
  /\ stStage[pieceIndex] = "write_wait"
  /\ stResult' = IF ok THEN "write_ok" ELSE "write_failed"
  /\ stCall' = NoCall
  /\ IF ok
     THEN /\ file' = BufferCopy(file, getFileOffset(pieceIndex), data)
          /\ stStage' = [stStage EXCEPT ![pieceIndex] = "sync_wait"]
          /\ stWriting' = [stWriting EXCEPT ![pieceIndex] = <<>>]
          /\ stEvents' = <<>>
          /\ UNCHANGED <<pieceBuffers, stCompletedPieces, verifiedPieces,
                         writtenBytes, dlcPending>>
     ELSE /\ WriteFailed(pieceIndex)
          /\ UNCHANGED file

\* completePiece, lines 287-306: the bookkeeping after write and sync.
MarkCompleted(pieceIndex) ==
  /\ stCompletedPieces' = stCompletedPieces \cup {pieceIndex}
  /\ verifiedPieces' = verifiedPieces + 1
  /\ writtenBytes' = writtenBytes + PieceLen(pieceIndex)
  /\ pieceBuffers' = [pieceBuffers EXCEPT ![pieceIndex] = NoBuffer]
  /\ stEvents' = <<Ev("piece_completed", pieceIndex)>>
  /\ stStage' = [stStage EXCEPT ![pieceIndex] = "idle"]
  /\ UNCHANGED stWriting
  /\ dlcPending' = IF stCompletedPieces' = Pieces THEN dlcPending + 1 ELSE dlcPending

SyncSettles_ignoresFailure(pieceIndex, ok) ==
  /\ stStage[pieceIndex] = "sync_wait"
  /\ stResult' = IF ok THEN "sync_ok" ELSE "sync_failed"
  /\ stCall' = NoCall
  /\ UNCHANGED file
  /\ MarkCompleted(pieceIndex)

\* completePiece, line 285: fileHandle.sync settles.
SyncSettles(pieceIndex, ok) ==
  /\ stStage[pieceIndex] = "sync_wait"
  /\ stResult' = IF ok THEN "sync_ok" ELSE "sync_failed"
  /\ stCall' = NoCall
  /\ UNCHANGED file
  /\ IF ok
     THEN MarkCompleted(pieceIndex)
     ELSE WriteFailed(pieceIndex)

\* verifyCompleteFile, lines 138-154: every piece of the file has its hash.
FileVerifies == \A p \in Pieces : HashMatches(p, FileSlice(file, p))

\* handleDownloadComplete, lines 319-346 (with verifyCompleteFile, 129-166),
\* run after the piece that filled the completion set.
DownloadCompleteSettles(ok) ==
  /\ dlcPending > 0
  /\ dlcPending' = dlcPending - 1
  /\ stResult' = "none"
  /\ stCall' = NoCall
  /\ UNCHANGED <<pieceBuffers, file, stStage, stWriting>>
  /\ IF ~ok
     THEN /\ stEvents' = <<Ev("download_completion_error", -1)>>
          /\ UNCHANGED <<stCompletedPieces, verifiedPieces, writtenBytes>>
     ELSE IF FileVerifies
     THEN /\ verifiedPieces' = NumPieces
          /\ writtenBytes' = torrent.length
          /\ stCompletedPieces' = Pieces
          /\ stEvents' = <<Ev("download_completed", -1)>>
     ELSE /\ stEvents' = <<Ev("download_verification_failed", -1)>>
          /\ UNCHANGED <<stCompletedPieces, verifiedPieces, writtenBytes>>

\* ------------------------------------------------------------------------
\* Peer sessions (src/src/peer.ts), scheduler (src/src/scheduler.ts) and the
\* wiring of the orchestrator (src/src/client.ts)
\* ------------------------------------------------------------------------

\* The PeerConnection objects the orchestrator creates.
Sessions == {"A", "B"}

\* windowSize, the third argument of the PieceScheduler constructor.
WindowSize == 2

\* At most this many request sends are unsettled when the next message of a
\* peer is processed.
MaxPending == 2

\* The number of events of the peers (connects, messages, errors, closes) in
\* a run.
MaxEvents == 7

ENDGAME_THRESHOLD == 20

VARIABLES
  sess,            \* per PeerConnection: socket phase, handshakeComplete,
                   \* state.choked, state.interested, state.bitfield,
                   \* state.inflight
  peers,           \* scheduler.peers
  peerBitfields,   \* scheduler.peerBitfields: which BitSet object, if any
  peerRequests,    \* scheduler.peerRequests: peer -> request ids, in
                   \* insertion order
  activeRequests,  \* scheduler.activeRequests: request id -> request.peer
  pieceProgress,   \* scheduler.pieceProgress
  completedPieces, \* scheduler.completedPieces
  availabilityMap, \* scheduler.availabilityMap
  endgameActive,   \* scheduler.endgameActive
  pendingSends,    \* per peer: the sendRequest promises not yet settled,
                   \* with the closure attached by then()
  sent,            \* per peer: the messages written to it in the last step
  schEvents,       \* events the scheduler emitted in the last step
  outstanding,     \* per peer and request id: requests written to the peer
                   \* and neither answered by it nor cancelled
  eventCount,      \* events of the peers processed so far
  step             \* the event processed last: what, of which session, for
                   \* which request id

swarmVars == <<sess, peers, peerBitfields, peerRequests, activeRequests,
               pieceProgress, completedPieces, availabilityMap,
               endgameActive, pendingSends, sent, schEvents, outstanding,
               eventCount, step>>

VARIABLES
  conn,            \* one PeerConnection at the level of the bytes received
  connHist,        \* what that session has been through
  idle             \* Date.now() - lastMessageTime of that session, in
                   \* periods of its keep-alive timer

connVars == <<conn, connHist, idle>>

VARIABLES
  cl,              \* the TorrentClient, its sessions, dial loops and announces
  clHist           \* what the run of the client has been through

clientVars == <<cl, clHist>>

vars == <<torrent, storeVars, swarmVars, connVars, clientVars>>

None == "none"

\* peerBitfields.get(peer): undefined, the BitSet object that is also the
\* session's state.bitfield (the object the 'bitfield' event carried), or a
\* BitSet the scheduler created itself in handlePeerHave.
NoBitfield == [kind |-> "none"]

SessionBitfield == [kind |-> "session"]

OwnBitfield(bits) == [kind |-> "own", bits |-> bits]

NoProgress == [none |-> TRUE]

\* getRequestId: `${pieceIndex}:${begin}`.
getRequestId(pieceIndex, begin) == <<pieceIndex, begin>>

Ids == UNION {{getRequestId(p, b) : b \in BlockOffsets(p)} : p \in Pieces}

getBlockLength(pieceIndex, blockOffset) ==
  Min(torrent.blockSize, PieceLen(pieceIndex) - blockOffset)

Range(seq) == {seq[i] : i \in 1 .. Len(seq)}

\* Set.add and Set.delete on a JavaScript Set, which iterates in insertion
\* order.
SetAdd(seq, x) == IF x \in Range(seq) THEN seq ELSE Append(seq, x)

SetDelete(seq, x) == SelectSeq(seq, LAMBDA y : y # x)

\* The PieceProgress the constructor and resetPiece build.
NewProgress(pieceIndex) ==
  [receivedBlocks |-> [b \in {} |-> <<>>],
   requestedBlocks |-> <<>>,
   availableBlocks |-> [i \in 1 .. expectedBlocks(pieceIndex) |-> (i - 1) * torrent.blockSize]]

Msg(type, index, begin) == [type |-> type, index |-> index, begin |-> begin]

NoId == <<-1, -1>>

Step(op, s, id) == [op |-> op, s |-> s, id |-> id]

SwarmInit ==
  /\ sess = [s \in Sessions |->
               [phase |-> "new", handshakeComplete |-> FALSE,
                choked |-> TRUE, interested |-> FALSE, bitfield |-> {},
                inflight |-> 0]]
  /\ peers = {}
  /\ peerBitfields = [s \in Sessions |-> NoBitfield]
  /\ peerRequests = [s \in Sessions |-> <<>>]
  /\ activeRequests = [id \in Ids |-> None]
  /\ pieceProgress = [p \in Pieces |-> NewProgress(p)]
  /\ completedPieces = {}
  /\ availabilityMap = [p \in Pieces |-> 0]
  /\ endgameActive = FALSE
  /\ pendingSends = [s \in Sessions |-> <<>>]
  /\ sent = [s \in Sessions |-> <<>>]
  /\ schEvents = <<>>
  /\ outstanding = [s \in Sessions |-> [id \in Ids |-> 0]]
  /\ eventCount = 0
  /\ step = Step("init", None, NoId)

\* The whole state as one record, for the synchronous code, which is written
\* as functions from the state a handler finds to the state it leaves.
World ==
  [sess |-> sess, peers |-> peers, peerBitfields |-> peerBitfields,
   peerRequests |-> peerRequests, activeRequests |-> activeRequests,
   pieceProgress |-> pieceProgress, completedPieces |-> completedPieces,
   availabilityMap |-> availabilityMap, endgameActive |-> endgameActive,
   pendingSends |-> pendingSends, sent |-> sent, schEvents |-> schEvents,
   outstanding |-> outstanding, st |-> Store]

SetWorld(w) ==
  /\ sess' = w.sess
  /\ peers' = w.peers
  /\ peerBitfields' = w.peerBitfields
  /\ peerRequests' = w.peerRequests
  /\ activeRequests' = w.activeRequests
  /\ pieceProgress' = w.pieceProgress
  /\ completedPieces' = w.completedPieces
  /\ availabilityMap' = w.availabilityMap
  /\ endgameActive' = w.endgameActive
  /\ pendingSends' = w.pendingSends
  /\ sent' = w.sent
  /\ schEvents' = w.schEvents
  /\ outstanding' = w.outstanding
  /\ SetStore(w.st)
  /\ UNCHANGED <<torrent, connVars, clientVars>>

\* The state a handler starts from: nothing written or emitted yet.
Begin ==
  [World EXCEPT !.sent = [s \in Sessions |-> <<>>],
                !.schEvents = <<>>,
                !.st.stEvents = <<>>,
                !.st.stResult = "none",
                !.st.stCall = NoCall]

schEmit(w, type, pieceIndex) ==
  [w EXCEPT !.schEvents = Append(@, Ev(type, pieceIndex))]

\* The most state.inflight is counted to: above what a session can own.
InflightCap == torrent.windowSize + 2

\* peer.isConnected(), peer.ts 587-589.
isConnected(w, s) == w.sess[s].phase = "open" /\ w.sess[s].handshakeComplete

\* socket.write of a message: it reaches the peer if the socket is open.
sendMessage(w, s, m) ==
  IF w.sess[s].phase = "open" THEN [w EXCEPT !.sent[s] = Append(@, m)] ELSE w

\* peer.sendRequest(...).then(...): the message is written now, the closure
\* of then() runs when the write has settled.  The closure holds the
\* PieceProgress object of this moment; stale tells that the scheduler has
\* replaced or dropped that object since.
\* state.inflight is counted up to InflightCap.
sendRequest(w, s, id) ==
  [sendMessage(w, s, Msg("request", id[1], id[2]))
     EXCEPT !.pendingSends[s] = Append(@, [id |-> id, stale |-> FALSE]),
            !.sess[s].inflight = Min(@ + 1, InflightCap),
            !.outstanding[s][id] = Min(@ + 1, torrent.windowSize + 1)]

\* peer.sendCancel, peer.ts 488-495.
sendCancel(w, s, id) ==
  [sendMessage(w, s, Msg("cancel", id[1], id[2]))
     EXCEPT !.sess[s].inflight = Max(0, @ - 1),
            !.outstanding[s][id] = 0]

\* peer.sendHave, peer.ts 461-465.
sendHave(w, s, pieceIndex) == sendMessage(w, s, Msg("have", pieceIndex, -1))

\* The closures of pending sends for a piece lose their PieceProgress.
dropProgress(w, pieceIndex) ==
  [w EXCEPT !.pendingSends =
     [s \in Sessions |->
        [i \in 1 .. Len(w.pendingSends[s]) |->
           IF w.pendingSends[s][i].id[1] = pieceIndex
           THEN [w.pendingSends[s][i] EXCEPT !.stale = TRUE]
           ELSE w.pendingSends[s][i]]]]

\* addActiveRequest, scheduler.ts 547-557.
addActiveRequest(w, id, peer) ==
  [w EXCEPT !.activeRequests[id] = peer,
            !.peerRequests[peer] = SetAdd(@, id)]

\* removeActiveRequest, scheduler.ts 559-567, for the request that
\* activeRequests holds under id.
removeActiveRequest(w, id) ==
  [w EXCEPT !.activeRequests[id] = None,
            !.peerRequests[w.activeRequests[id]] = SetDelete(@, id)]

\* cancelBlockRequest, scheduler.ts 569-588, for the request that
\* activeRequests holds under id.
cancelBlockRequest(w, id) ==
  LET w1 == removeActiveRequest(sendCancel(w, w.activeRequests[id], id), id)
      p == id[1]
  IN IF w1.pieceProgress[p] = NoProgress THEN w1
     ELSE [w1 EXCEPT !.pieceProgress[p].requestedBlocks = SetDelete(@, id[2]),
                     !.pieceProgress[p].availableBlocks = SetAdd(@, id[2])]

\* for (const requestId of peerRequestIds) { request = activeRequests.get;
\* if (request) cancelBlockRequest(request) }: removePeer 138-144 and
\* handlePeerChoke 244-250.
RECURSIVE cancelPeerRequests(_, _)
cancelPeerRequests(w, ids) ==
  IF ids = <<>> THEN w
  ELSE cancelPeerRequests(
         IF w.activeRequests[Head(ids)] # None
         THEN cancelBlockRequest(w, Head(ids)) ELSE w,
         Tail(ids))

\* The active requests of a piece, as resetPiece and cancelDuplicateRequests
\* collect them.
requestsOfPiece(w, pieceIndex) ==
  SelectSeq([i \in 1 .. expectedBlocks(pieceIndex) |->
               getRequestId(pieceIndex, (i - 1) * torrent.blockSize)],
            LAMBDA id : w.activeRequests[id] # None)

\* getRemainingBlockCount, scheduler.ts 604-610.
RECURSIVE remainingIn(_, _)
remainingIn(w, ps) ==
  IF ps = {} THEN 0
  ELSE LET p == CHOOSE q \in ps : TRUE
       IN (IF w.pieceProgress[p] = NoProgress THEN 0
           ELSE Len(w.pieceProgress[p].availableBlocks)
                + Len(w.pieceProgress[p].requestedBlocks))
          + remainingIn(w, ps \ {p})

getRemainingBlockCount(w) == remainingIn(w, Pieces)

\* The BitSet peerBitfields holds for s, as a set of piece indices.
bitfieldBits(w, s) ==
  IF w.peerBitfields[s].kind = "session" THEN w.sess[s].bitfield
  ELSE IF w.peerBitfields[s].kind = "own" THEN w.peerBitfields[s].bits
  ELSE {}

\* getRarestFirstPieces with the candidates left in index order.
getRarestFirstPieces_byIndex(w, bits) ==
  LET cand == {p \in Pieces :
                 /\ p \notin w.completedPieces
                 /\ p \in bits
                 /\ w.pieceProgress[p] # NoProgress
                 /\ w.pieceProgress[p].availableBlocks # <<>>}
  IN [i \in 1 .. Cardinality(cand) |->
        CHOOSE p \in cand : Cardinality({q \in cand : q < p}) = i - 1]

\* getRarestFirstPieces, scheduler.ts 322-355.
getRarestFirstPieces(w, bits) ==
  LET cand == {p \in Pieces :
                 /\ p \notin w.completedPieces
                 /\ p \in bits
                 /\ w.pieceProgress[p] # NoProgress
                 /\ w.pieceProgress[p].availableBlocks # <<>>}
      before(a, b) ==
        \/ w.availabilityMap[a] < w.availabilityMap[b]
        \/ w.availabilityMap[a] = w.availabilityMap[b] /\ a < b
  IN [i \in 1 .. Cardinality(cand) |->
        CHOOSE p \in cand : Cardinality({q \in cand : before(q, p)}) = i - 1]

\* The loop of scheduleBlocksForPiece, scheduler.ts 371-410: the request ids
\* it sends.
RECURSIVE blocksLoop(_, _, _, _, _)
blocksLoop(w, s, pieceIndex, blocks, maxBlocks) ==
  IF blocks = <<>> \/ maxBlocks <= 0 THEN <<>>
  ELSE IF w.activeRequests[getRequestId(pieceIndex, Head(blocks))] = s
  THEN blocksLoop(w, s, pieceIndex, Tail(blocks), maxBlocks)
  ELSE <<getRequestId(pieceIndex, Head(blocks))>>
       \o blocksLoop(w, s, pieceIndex, Tail(blocks), maxBlocks - 1)

\* scheduleBlocksForPiece, scheduler.ts 357-413.
scheduleBlocksForPiece(w, s, pieceIndex, maxBlocks) ==
  IF w.pieceProgress[pieceIndex] = NoProgress THEN <<>>
  ELSE blocksLoop(w, s, pieceIndex,
                  IF w.endgameActive
                  THEN w.pieceProgress[pieceIndex].availableBlocks
                       \o w.pieceProgress[pieceIndex].requestedBlocks
                  ELSE w.pieceProgress[pieceIndex].availableBlocks,
                  maxBlocks)

\* The loop of schedulePeerRequests, scheduler.ts 312-319.
RECURSIVE piecesLoop(_, _, _, _)
piecesLoop(w, s, candidatePieces, capacity) ==
  IF candidatePieces = <<>> \/ capacity <= 0 THEN <<>>
  ELSE LET ids == scheduleBlocksForPiece(w, s, Head(candidatePieces), capacity)
       IN ids \o piecesLoop(w, s, Tail(candidatePieces), capacity - Len(ids))

RECURSIVE sendRequests(_, _, _)
sendRequests(w, s, ids) ==
  IF ids = <<>> THEN w
  ELSE sendRequests(sendRequest(w, s, Head(ids)), s, Tail(ids))

\* schedulePeerRequests without the test of the choke flag.
schedulePeerRequests_ignoresChoke(w, s) ==
  IF ~isConnected(w, s) THEN w
  ELSE IF torrent.windowSize - Len(w.peerRequests[s]) <= 0 THEN w
  ELSE IF w.peerBitfields[s] = NoBitfield THEN w
  ELSE sendRequests(w, s,
         piecesLoop(w, s, getRarestFirstPieces(w, bitfieldBits(w, s)),
                    torrent.windowSize - Len(w.peerRequests[s])))

\* schedulePeerRequests, scheduler.ts 288-320.  Nothing the scheduler reads
\* here changes before the sends settle, so the requests are computed first
\* and then sent.
schedulePeerRequests(w, s) ==
  IF w.sess[s].choked \/ ~isConnected(w, s) THEN w
  ELSE IF torrent.windowSize - Len(w.peerRequests[s]) <= 0 THEN w
  ELSE IF w.peerBitfields[s] = NoBitfield THEN w
  ELSE sendRequests(w, s,
         piecesLoop(w, s, getRarestFirstPieces(w, bitfieldBits(w, s)),
                    torrent.windowSize - Len(w.peerRequests[s])))

RECURSIVE schedulePeers(_, _)
schedulePeers(w, ps) ==
  IF ps = {} THEN w
  ELSE LET s == CHOOSE x \in ps : TRUE
       IN schedulePeers(schedulePeerRequests(w, s), ps \ {s})

\* scheduleRequests without the test for endgame.
scheduleRequests_noEndgame(w) == schedulePeers(w, w.peers)

\* scheduleRequests, scheduler.ts 272-286.
scheduleRequests(w) ==
  schedulePeers(
    IF ~w.endgameActive /\ getRemainingBlockCount(w) <= ENDGAME_THRESHOLD
    THEN schEmit([w EXCEPT !.endgameActive = TRUE], "endgame_started", -1)
    ELSE w,
    w.peers)

\* updateAvailability, scheduler.ts 257-270.
updateAvailability(w, newBits, oldBits) ==
  [w EXCEPT !.availabilityMap =
     [p \in Pieces |->
        IF p \in newBits /\ p \notin oldBits THEN w.availabilityMap[p] + 1
        ELSE IF p \notin newBits /\ p \in oldBits
        THEN Max(0, w.availabilityMap[p] - 1)
        ELSE w.availabilityMap[p]]]

\* addPeer, scheduler.ts 106-130, as connectToPeer calls it (no bitfield).
addPeer(w, s) ==
  IF s \in w.peers THEN w
  ELSE scheduleRequests(
         schEmit([w EXCEPT !.peers = @ \cup {s}, !.peerRequests[s] = <<>>],
                 "peer_added", -1))

\* removePeer, scheduler.ts 132-164.
removePeer(w, s) ==
  IF s \notin w.peers THEN w
  ELSE LET w1 == cancelPeerRequests(w, w.peerRequests[s])
           oldBits == bitfieldBits(w1, s)
           w2 == [w1 EXCEPT !.peers = @ \ {s},
                            !.peerRequests[s] = <<>>,
                            !.peerBitfields[s] = NoBitfield,
                            !.availabilityMap =
                              [p \in Pieces |->
                                 IF p \in oldBits
                                 THEN Max(0, w1.availabilityMap[p] - 1)
                                 ELSE w1.availabilityMap[p]]]
       IN scheduleRequests(schEmit(w2, "peer_removed", -1))

\* handlePeerBitfield, scheduler.ts 166-173.  oldBits is what the BitSet
\* the scheduler held contained; the new one is the session's own object.
handlePeerBitfield(w, s, oldBits) ==
  scheduleRequests(
    updateAvailability([w EXCEPT !.peerBitfields[s] = SessionBitfield],
                       w.sess[s].bitfield, oldBits))

\* handlePeerHave, scheduler.ts 175-188.
handlePeerHave(w, s, pieceIndex) ==
  LET w1 == IF w.peerBitfields[s] = NoBitfield
            THEN [w EXCEPT !.peerBitfields[s] = OwnBitfield({})] ELSE w
  IN IF pieceIndex \in bitfieldBits(w1, s) THEN w1
     ELSE scheduleRequests(
            [w1 EXCEPT !.peerBitfields[s] = OwnBitfield(@.bits \cup {pieceIndex}),
                       !.availabilityMap[pieceIndex] = @ + 1])

\* handlePeerChoke, scheduler.ts 242-251.
handlePeerChoke(w, s) == cancelPeerRequests(w, w.peerRequests[s])

\* handlePeerUnchoke, scheduler.ts 253-255.
handlePeerUnchoke(w, s) == scheduleRequests(w)

\* resetPiece, scheduler.ts 487-522.
resetPiece(w, pieceIndex) ==
  LET w1 == cancelPeerRequests(w, requestsOfPiece(w, pieceIndex))
  IN [dropProgress(w1, pieceIndex)
        EXCEPT !.pieceProgress[pieceIndex] = NewProgress(pieceIndex),
               !.completedPieces = @ \ {pieceIndex}]

\* cancelDuplicateRequests, scheduler.ts 524-545.
RECURSIVE cancelDuplicateRequests(_, _)
cancelDuplicateRequests(w, ids) ==
  IF ids = <<>> THEN w
  ELSE cancelDuplicateRequests(
         removeActiveRequest(sendCancel(w, w.activeRequests[Head(ids)], Head(ids)),
                             Head(ids)),
         Tail(ids))

RECURSIVE sendHaves(_, _, _)
sendHaves(w, ps, pieceIndex) ==
  IF ps = {} THEN w
  ELSE LET s == CHOOSE x \in ps : TRUE
       IN sendHaves(sendHave(w, s, pieceIndex), ps \ {s}, pieceIndex)

\* Buffer.concat of the received blocks in offset order.
RECURSIVE concatBlocks(_, _)
concatBlocks(receivedBlocks, offsets) ==
  IF offsets = <<>> THEN <<>>
  ELSE receivedBlocks[Head(offsets)] \o concatBlocks(receivedBlocks, Tail(offsets))

\* The listener of the orchestrator on the scheduler's piece_completed,
\* client.ts 365-376: the piece is cut into blocks and each is handed to
\* storage.addBlock.  addBlock throws on none of them (the store stops at the
\* first call that would).
RECURSIVE forwardToStorage(_, _, _, _)
forwardToStorage(st, pieceIndex, data, i) ==
  IF i * torrent.blockSize >= Len(data) \/ st.stResult = "StorageError" THEN st
  ELSE forwardToStorage(
         addBlock(st, pieceIndex, i * torrent.blockSize,
                  Slice(data, i * torrent.blockSize, Min(torrent.blockSize, Len(data) - i * torrent.blockSize))),
         pieceIndex, data, i + 1)

\* completePiece of the scheduler, scheduler.ts 415-485.
schCompletePiece(w, pieceIndex) ==
  LET progress == w.pieceProgress[pieceIndex]
      offsets == NewProgress(pieceIndex).availableBlocks
      pieceData == concatBlocks(progress.receivedBlocks, offsets)
  IN
  IF progress = NoProgress THEN w
  ELSE IF \E i \in 1 .. Len(offsets) : offsets[i] \notin DOMAIN progress.receivedBlocks
  THEN schEmit(w, "piece_error", pieceIndex)
  ELSE IF Sha1(pieceData) # verifiedHashes(pieceIndex)
  THEN resetPiece(schEmit(w, "piece_error", pieceIndex), pieceIndex)
  ELSE
    LET w1 == dropProgress(
                [w EXCEPT !.completedPieces = @ \cup {pieceIndex},
                          !.pieceProgress[pieceIndex] = NoProgress],
                pieceIndex)
        w2 == IF w1.endgameActive
              THEN cancelDuplicateRequests(w1, requestsOfPiece(w1, pieceIndex))
              ELSE w1
        w3 == schEmit(sendHaves(w2, w2.peers, pieceIndex), "piece_completed", pieceIndex)
        w4 == [w3 EXCEPT !.st = forwardToStorage(w3.st, pieceIndex, pieceData, 0)]
    IN IF w4.completedPieces = Pieces
       THEN schEmit(w4, "download_completed", -1) ELSE w4

\* handlePeerPiece, scheduler.ts 190-240.
handlePeerPiece(w, s, pieceIndex, begin, block) ==
  LET id == getRequestId(pieceIndex, begin)
      w1 == removeActiveRequest(w, id)
      w2 == [w1 EXCEPT !.pieceProgress[pieceIndex].receivedBlocks =
                         (begin :> block) @@ @,
                       !.pieceProgress[pieceIndex].requestedBlocks =
                         SetDelete(@, begin),
                       !.pieceProgress[pieceIndex].availableBlocks =
                         SetDelete(@, begin)]
  IN
  IF w.activeRequests[id] = None THEN w
  ELSE IF Len(block) # getBlockLength(pieceIndex, begin)
  THEN schEmit(w1, "block_error", pieceIndex)
  ELSE IF w1.pieceProgress[pieceIndex] = NoProgress THEN w1
  ELSE scheduleRequests(
         IF w2.pieceProgress[pieceIndex].availableBlocks = <<>>
         THEN schCompletePiece(w2, pieceIndex)
         ELSE schEmit(w2, "block_received", pieceIndex))

\* The closure of sendRequest(...).then, scheduler.ts 398-404.
trackRequest(w, s, closure) ==
  LET w1 == addActiveRequest(w, closure.id, s)
      p == closure.id[1]
      b == closure.id[2]
  IN IF closure.stale THEN w1
     ELSE [w1 EXCEPT !.pieceProgress[p].requestedBlocks = SetAdd(@, b),
                     !.pieceProgress[p].availableBlocks =
                       IF w1.endgameActive THEN @ ELSE SetDelete(@, b)]

\* The tracked requests, by piece and offset.  The Map's own order, that of
\* insertion, is not kept; it decides the order of the cancels sent and of
\* the offsets put back into availableBlocks, not which of them are.
RECURSIVE requestsOfPieces(_, _)
requestsOfPieces(w, n) ==
  IF n >= NumPieces THEN <<>>
  ELSE requestsOfPiece(w, n) \o requestsOfPieces(w, n + 1)

RECURSIVE timeoutRequests(_, _)
timeoutRequests(w, ids) ==
  IF ids = <<>> THEN w
  ELSE timeoutRequests(
         cancelBlockRequest(schEmit(w, "request_timeout", Head(ids)[1]), Head(ids)),
         Tail(ids))

\* handleTimeouts, scheduler.ts 641-659, run at a time at which the deadline
\* of every tracked request has passed (30 s after the last request was
\* made).
handleTimeouts(w) ==
  IF requestsOfPieces(w, 0) = <<>> THEN w
  ELSE scheduleRequests(timeoutRequests(w, requestsOfPieces(w, 0)))

\* ------------------------------------------------------------------------
\* Steps of the swarm: what arrives from a peer, and the sends that settle
\* ------------------------------------------------------------------------

RECURSIVE seqLenSum(_, _)
seqLenSum(f, S) ==
  IF S = {} THEN 0
  ELSE LET x == CHOOSE y \in S : TRUE IN Len(f[x]) + seqLenSum(f, S \ {x})

\* An event of a peer is processed while fewer than MaxPending sends are
\* unsettled, and MaxEvents of them are processed in all.
Quiet ==
  /\ seqLenSum(pendingSends, Sessions) < MaxPending
  /\ eventCount < MaxEvents
  /\ eventCount' = eventCount + 1

\* Data is read from an open socket after the handshake.
Receiving(s) == sess[s].phase = "open" /\ sess[s].handshakeComplete

\* connectToPeer, client.ts 484-537: the PeerConnection is created, connect()
\* resolves once the handshake is written, the peer is added to the
\* scheduler.
Connect(s) ==
  /\ Quiet
  /\ step' = Step("connect", s, NoId)
  /\ sess[s].phase = "new"
  /\ SetWorld(addPeer([Begin EXCEPT !.sess[s].phase = "open"], s))

\* processHandshake, peer.ts 254-273, for a valid handshake.
RecvHandshake(s) ==
  /\ Quiet
  /\ step' = Step("handshake", s, NoId)
  /\ sess[s].phase = "open"
  /\ ~sess[s].handshakeComplete
  /\ SetWorld([Begin EXCEPT !.sess[s].handshakeComplete = TRUE])

\* handleMessage CHOKE, peer.ts 350-353.
RecvChoke(s) ==
  /\ Quiet
  /\ step' = Step("choke", s, NoId)
  /\ Receiving(s)
  /\ SetWorld(handlePeerChoke([Begin EXCEPT !.sess[s].choked = TRUE], s))

\* handleMessage UNCHOKE, peer.ts 355-358.
RecvUnchoke(s) ==
  /\ Quiet
  /\ step' = Step("unchoke", s, NoId)
  /\ Receiving(s)
  /\ SetWorld(handlePeerUnchoke([Begin EXCEPT !.sess[s].choked = FALSE], s))

\* handleMessage HAVE, peer.ts 370-377.
RecvHave(s, pieceIndex) ==
  /\ Quiet
  /\ step' = Step("have", s, NoId)
  /\ Receiving(s)
  /\ SetWorld(handlePeerHave(
       [Begin EXCEPT !.sess[s].bitfield = @ \cup {pieceIndex}], s, pieceIndex))

\* handleMessage BITFIELD, peer.ts 379-385.
RecvBitfield(s, bits) ==
  /\ Quiet
  /\ step' = Step("bitfield", s, NoId)
  /\ Receiving(s)
  /\ SetWorld(handlePeerBitfield(
       [Begin EXCEPT !.sess[s].bitfield = bits], s, bitfieldBits(World, s)))

\* handleMessage PIECE, peer.ts 399-409.  The peer has answered one of the
\* requests written to it for this block, if there is one.
RecvPiece(s, pieceIndex, begin, block) ==
  /\ Quiet
  /\ step' = Step("piece", s, getRequestId(pieceIndex, begin))
  /\ Receiving(s)
  /\ SetWorld(handlePeerPiece(
       [Begin EXCEPT !.outstanding[s][getRequestId(pieceIndex, begin)] = Max(0, @ - 1)],
       s, pieceIndex, begin, block))

\* processMessages, peer.ts 327-333: a message that does not parse makes the
\* session emit 'error'; the socket stays as it is.  The scheduler (addPeer,
\* line 126) and the orchestrator (client.ts 549-556) call removePeer.
ProtocolError(s) ==
  /\ Quiet
  /\ step' = Step("error", s, NoId)
  /\ Receiving(s)
  /\ SetWorld(removePeer(Begin, s))

\* handleClose, peer.ts 557-560: the socket is destroyed and 'close' is
\* emitted, on which the scheduler calls removePeer (addPeer, line 125).
HandleClose(s) ==
  /\ Quiet
  /\ step' = Step("close", s, NoId)
  /\ sess[s].phase = "open"
  /\ SetWorld(removePeer([Begin EXCEPT !.sess[s].phase = "closed"], s))

\* The write of a request settles: with success on an open socket, where the
\* closure of then() tracks the request, with an error otherwise.
SendSettles(s) ==
  /\ pendingSends[s] # <<>>
  /\ UNCHANGED eventCount
  /\ step' = Step("settle", s, Head(pendingSends[s]).id)
  /\ LET w == [Begin EXCEPT !.pendingSends[s] = Tail(@)]
     IN SetWorld(IF sess[s].phase = "open"
                 THEN trackRequest(w, s, Head(pendingSends[s]))
                 ELSE schEmit(w, "request_error", Head(pendingSends[s]).id[1]))

\* The maintenance timer of the scheduler (scheduler.ts 635-639) fires when
\* the requests tracked have all passed their deadline.
HandleTimeouts ==
  /\ Quiet
  /\ step' = Step("timeouts", None, NoId)
  /\ \E id \in Ids : activeRequests[id] # None
  /\ SetWorld(handleTimeouts(Begin))

\* ------------------------------------------------------------------------
\* One peer session byte by byte (src/src/peer.ts): handshake and framing
\* ------------------------------------------------------------------------

\* PROTOCOL_STRING, 'BitTorrent protocol', as its bytes.  The string is
\* ASCII, so the comparison of the decoded strings in parseHandshake is the
\* comparison of the bytes.
PROTOCOL_STRING ==
  <<66, 105, 116, 84, 111, 114, 114, 101, 110, 116, 32,
    112, 114, 111, 116, 111, 99, 111, 108>>

HANDSHAKE_LENGTH == 68

\* enum MessageType, by the names of its members.
MessageType ==
  "CHOKE" :> 0 @@ "UNCHOKE" :> 1 @@ "INTERESTED" :> 2
  @@ "NOT_INTERESTED" :> 3 @@ "HAVE" :> 4 @@ "BITFIELD" :> 5
  @@ "REQUEST" :> 6 @@ "PIECE" :> 7 @@ "CANCEL" :> 8 @@ "PORT" :> 9

\* The info-hash and the peer id the session was constructed with.
InfoHash == [i \in 1 .. 20 |-> i]

PeerId == [i \in 1 .. 20 |-> 45]

\* Buffer.subarray(start, end): offsets from 0, end exclusive, clamped to the
\* buffer.
subarray(buf, start, end) == SubSeq(buf, start + 1, Min(end, Len(buf)))

readUInt32BE(buf, offset) ==
  buf[offset + 1] * 16777216 + buf[offset + 2] * 65536
  + buf[offset + 3] * 256 + buf[offset + 4]

\* BitSet.fromBuffer(payload, size) as the set of indices get() answers true
\* for: bit 7 - i % 8 of byte i / 8, for the indices below size whose byte
\* was copied.
fromBuffer(payload, size) ==
  {i \in 0 .. size - 1 :
     /\ i \div 8 < Len(payload)
     /\ (payload[i \div 8 + 1] \div (2 ^ (7 - (i % 8)))) % 2 = 1}

\* The session: socket.destroyed, whether the socket has emitted 'close',
\* handshakeComplete, messageBuffer, the fields of state, and the events the
\* session emitted in the last step.
NewConn ==
  [destroyed |-> FALSE, closed |-> FALSE, handshakeComplete |-> FALSE,
   messageBuffer |-> <<>>, choked |-> TRUE, interested |-> FALSE,
   peerChoked |-> TRUE, peerInterested |-> FALSE, bitfield |-> {},
   inflight |-> 0, emitted |-> <<>>]

ConnEv(type, arg) == [type |-> type, arg |-> arg]

NoArg == -1

connEmit(c, type, arg) == [c EXCEPT !.emitted = Append(@, ConnEv(type, arg))]

\* What handleMessage leaves when it throws: every throw comes before the
\* first assignment of its case.
Thrown == [thrown |-> TRUE]

\* A payload of no bytes stands for the undefined payload parseMessage
\* returns for a frame of length 1.
parseMessage(data) ==
  [type |-> data[1],
   payload |-> IF Len(data) > 1 THEN subarray(data, 1, Len(data)) ELSE <<>>]

\* handleMessage with a default case that throws a protocol error.
handleMessage_unknownThrows(c, message) ==
  IF message.type = MessageType["CHOKE"]
  THEN connEmit([c EXCEPT !.choked = TRUE], "choke", NoArg)
  ELSE IF message.type = MessageType["UNCHOKE"]
  THEN connEmit([c EXCEPT !.choked = FALSE], "unchoke", NoArg)
  ELSE IF message.type = MessageType["INTERESTED"]
  THEN connEmit([c EXCEPT !.peerInterested = TRUE], "interested", NoArg)
  ELSE IF message.type = MessageType["NOT_INTERESTED"]
  THEN connEmit([c EXCEPT !.peerInterested = FALSE], "not_interested", NoArg)
  ELSE IF message.type = MessageType["HAVE"]
  THEN IF Len(message.payload) # 4
       THEN Thrown
       ELSE LET pieceIndex == readUInt32BE(message.payload, 0)
            IN IF pieceIndex < 0 \/ pieceIndex >= NumPieces
               THEN Thrown
               ELSE connEmit([c EXCEPT !.bitfield = @ \cup {pieceIndex}],
                             "have", pieceIndex)
  ELSE IF message.type = MessageType["BITFIELD"]
  THEN IF message.payload = <<>>
       THEN Thrown
       ELSE connEmit([c EXCEPT !.bitfield =
                                  fromBuffer(message.payload, NumPieces)],
                     "bitfield", NoArg)
  ELSE IF message.type = MessageType["REQUEST"]
  THEN IF Len(message.payload) # 12
       THEN Thrown
       ELSE connEmit(c, "request", readUInt32BE(message.payload, 0))
  ELSE IF message.type = MessageType["PIECE"]
  THEN IF Len(message.payload) < 8
       THEN Thrown
       ELSE connEmit(c, "piece", readUInt32BE(message.payload, 0))
  ELSE IF message.type = MessageType["CANCEL"]
  THEN IF Len(message.payload) # 12
       THEN Thrown
       ELSE connEmit(c, "cancel", readUInt32BE(message.payload, 0))
  ELSE IF message.type = MessageType["PORT"]
  THEN IF Len(message.payload) # 2
       THEN Thrown
       ELSE connEmit(c, "port", NoArg)
  ELSE Thrown

\* handleMessage: a throw comes before the first assignment of its case.
handleMessage(c, message) ==
  IF message.type = MessageType["CHOKE"]
  THEN connEmit([c EXCEPT !.choked = TRUE], "choke", NoArg)
  ELSE IF message.type = MessageType["UNCHOKE"]
  THEN connEmit([c EXCEPT !.choked = FALSE], "unchoke", NoArg)
  ELSE IF message.type = MessageType["INTERESTED"]
  THEN connEmit([c EXCEPT !.peerInterested = TRUE], "interested", NoArg)
  ELSE IF message.type = MessageType["NOT_INTERESTED"]
  THEN connEmit([c EXCEPT !.peerInterested = FALSE], "not_interested", NoArg)
  ELSE IF message.type = MessageType["HAVE"]
  THEN IF Len(message.payload) # 4
       THEN Thrown
       ELSE LET pieceIndex == readUInt32BE(message.payload, 0)
            IN IF pieceIndex < 0 \/ pieceIndex >= NumPieces
               THEN Thrown
               ELSE connEmit([c EXCEPT !.bitfield = @ \cup {pieceIndex}],
                             "have", pieceIndex)
  ELSE IF message.type = MessageType["BITFIELD"]
  THEN IF message.payload = <<>>
       THEN Thrown
       ELSE connEmit([c EXCEPT !.bitfield =
                                  fromBuffer(message.payload, NumPieces)],
                     "bitfield", NoArg)
  ELSE IF message.type = MessageType["REQUEST"]
  THEN IF Len(message.payload) # 12
       THEN Thrown
       ELSE connEmit(c, "request", readUInt32BE(message.payload, 0))
  ELSE IF message.type = MessageType["PIECE"]
  THEN IF Len(message.payload) < 8
       THEN Thrown
       ELSE connEmit(c, "piece", readUInt32BE(message.payload, 0))
  ELSE IF message.type = MessageType["CANCEL"]
  THEN IF Len(message.payload) # 12
       THEN Thrown
       ELSE connEmit(c, "cancel", readUInt32BE(message.payload, 0))
  ELSE IF message.type = MessageType["PORT"]
  THEN IF Len(message.payload) # 2
       THEN Thrown
       ELSE connEmit(c, "port", NoArg)
  ELSE connEmit(c, "unknown_message", message.type)

\* processMessages: the frames the buffer holds in full, in order; a frame
\* handleMessage throws on has been taken off the buffer, yields 'error' and
\* ends the pass.
RECURSIVE processMessages(_)
processMessages(c) ==
  IF Len(c.messageBuffer) < 4
  THEN c
  ELSE LET messageLength == readUInt32BE(c.messageBuffer, 0)
       IN IF messageLength = 0
          THEN processMessages(
                 connEmit([c EXCEPT !.messageBuffer =
                                      subarray(@, 4, Len(@))],
                          "keepalive", NoArg))
          ELSE IF Len(c.messageBuffer) < 4 + messageLength
          THEN c
          ELSE LET messageData ==
                     subarray(c.messageBuffer, 4, 4 + messageLength)
                   rest == [c EXCEPT !.messageBuffer =
                                       subarray(@, 4 + messageLength, Len(@))]
                   done == handleMessage(rest, parseMessage(messageData))
               IN IF done = Thrown
                  THEN connEmit(rest, "error", NoArg)
                  ELSE processMessages(done)

\* parseHandshake without the comparison of the info-hash.
parseHandshake_anyInfoHash(handshake) ==
  LET protocolLength == handshake[1]
      protocol == subarray(handshake, 1, 1 + protocolLength)
  IN IF protocol # PROTOCOL_STRING THEN "Invalid protocol" ELSE "ok"

\* parseHandshake: "ok", or the message of the PeerError it throws.
parseHandshake(handshake) ==
  LET protocolLength == handshake[1]
      protocol == subarray(handshake, 1, 1 + protocolLength)
      receivedInfoHash ==
        subarray(handshake, 1 + protocolLength + 8,
                 1 + protocolLength + 8 + 20)
  IN IF protocol # PROTOCOL_STRING
     THEN "Invalid protocol"
     ELSE IF receivedInfoHash # InfoHash
     THEN "Info hash mismatch"
     ELSE "ok"

\* processHandshake: on a handshake that does not parse, 'error' is emitted
\* and nothing else is done: the bytes stay in the buffer and the socket
\* stays open.
processHandshake(c) ==
  IF Len(c.messageBuffer) < HANDSHAKE_LENGTH
  THEN c
  ELSE IF parseHandshake(subarray(c.messageBuffer, 0, HANDSHAKE_LENGTH)) = "ok"
  THEN LET done ==
             connEmit([c EXCEPT !.messageBuffer =
                                  subarray(@, HANDSHAKE_LENGTH, Len(@)),
                                !.handshakeComplete = TRUE],
                      "handshake", NoArg)
       IN IF Len(done.messageBuffer) > 0 THEN processMessages(done) ELSE done
  ELSE connEmit(c, "error", NoArg)

handleData(c, data) ==
  LET got == [c EXCEPT !.messageBuffer = @ \o data]
  IN IF ~got.handshakeComplete
     THEN processHandshake(got)
     ELSE processMessages(got)

\* cleanup: the keepalive timer is not part of the state.
cleanup(c) == [c EXCEPT !.destroyed = TRUE]

handleError(c) == connEmit(cleanup(c), "error", NoArg)

handleClose(c) == connEmit(cleanup(c), "close", NoArg)

\* sendRequest and sendCancel as far as the state of the session goes: the
\* count of requests in flight.
connSendRequest(c) == [c EXCEPT !.inflight = @ + 1]

connSendCancel(c) == [c EXCEPT !.inflight = IF @ - 1 > 0 THEN @ - 1 ELSE 0]

\* ----- the bytes a peer sends -----

MaxChunks == 3

MaxInflight == 2

UInt32(n) == <<0, 0, n \div 256, n % 256>>

Frame(id, payload) == UInt32(1 + Len(payload)) \o <<id>> \o payload

Reserved == [i \in 1 .. 8 |-> 0]

Handshake(protocol, infoHash) ==
  <<Len(protocol)>> \o protocol \o Reserved \o infoHash \o PeerId

ValidHandshake == Handshake(PROTOCOL_STRING, InfoHash)

\* The protocol string with its last letter changed, the protocol string cut
\* to 18 letters (its handshake is completed to 68 bytes by what follows),
\* and an info-hash that differs in its last byte.
WrongProtocol == [PROTOCOL_STRING EXCEPT ![19] = 76]

ShortProtocol == SubSeq(PROTOCOL_STRING, 1, 18)

WrongInfoHash == [InfoHash EXCEPT ![20] = 0]

ChokeFrame == Frame(MessageType["CHOKE"], <<>>)

UnchokeFrame == Frame(MessageType["UNCHOKE"], <<>>)

HaveFrame(pieceIndex) == Frame(MessageType["HAVE"], UInt32(pieceIndex))

\* A frame with an id the protocol does not define, as peer.test.ts sends it.
UnknownFrames == {Frame(255, <<1, 2, 3>>), Frame(20, <<>>)}

KnownFrames ==
  {ChokeFrame, UnchokeFrame,
   Frame(MessageType["INTERESTED"], <<>>),
   Frame(MessageType["NOT_INTERESTED"], <<>>),
   HaveFrame(0), HaveFrame(NumPieces - 1),
   Frame(MessageType["BITFIELD"], <<128>>),
   Frame(MessageType["BITFIELD"], <<255>>),
   Frame(MessageType["REQUEST"], UInt32(0) \o UInt32(0) \o UInt32(torrent.blockSize)),
   Frame(MessageType["PIECE"], UInt32(0) \o UInt32(0) \o <<1, 1>>),
   Frame(MessageType["CANCEL"], UInt32(0) \o UInt32(0) \o UInt32(torrent.blockSize)),
   Frame(MessageType["PORT"], <<26, 225>>),
   UInt32(0)}

\* Frames whose payload has not the length of their type, and a 'have' of a
\* piece the torrent has not.
BadFrames ==
  {Frame(MessageType["HAVE"], <<0, 0, 1>>),
   HaveFrame(NumPieces),
   Frame(MessageType["BITFIELD"], <<>>),
   Frame(MessageType["PIECE"], <<0, 0, 0, 0>>)}

\* What one 'data' event of the socket carries: a handshake, whole, in two
\* parts or with a frame behind it; a frame; an unknown frame with a frame
\* behind it; a frame in two parts.
Chunks ==
  {ValidHandshake,
   SubSeq(ValidHandshake, 1, 40), SubSeq(ValidHandshake, 41, 68),
   ValidHandshake \o ChokeFrame,
   Handshake(WrongProtocol, InfoHash),
   Handshake(ShortProtocol, InfoHash),
   Handshake(PROTOCOL_STRING, WrongInfoHash)}
  \cup KnownFrames \cup UnknownFrames \cup BadFrames
  \cup {u \o f : u \in UnknownFrames, f \in {UnchokeFrame, HaveFrame(0)}}
  \cup {SubSeq(HaveFrame(0), 1, 6), SubSeq(HaveFrame(0), 7, 9)}

\* ----- steps of the session -----

IsTerminal(e) == e.type \in {"error", "close"}

\* The record of what the session has been through: the first bytes received,
\* up to the length of a handshake; the terminal events ('error', 'close')
\* emitted so far, counted up to 2; whether an event was emitted after a
\* terminal event; the bytes of the last 'data' event (none if the last
\* step was not one); the 'data' events so far; all the bytes received and
\* all the events emitted, in order.
ConnInit ==
  /\ conn = NewConn
  /\ connHist = [first |-> <<>>, terminal |-> 0, after |-> FALSE,
                 data |-> <<>>, chunks |-> 0, stream |-> <<>>,
                 events |-> <<>>]
  /\ idle = 0

Record(c, data) ==
  /\ conn' = c
  /\ idle' = IF data # <<>> THEN 0 ELSE idle
  /\ connHist' =
       [first |-> subarray(connHist.first \o data, 0, HANDSHAKE_LENGTH),
        terminal |-> Min(2, connHist.terminal
                              + Len(SelectSeq(c.emitted, IsTerminal))),
        after |-> connHist.after
                    \/ (connHist.terminal > 0 /\ c.emitted # <<>>),
        data |-> data,
        chunks |-> connHist.chunks + (IF data = <<>> THEN 0 ELSE 1),
        stream |-> connHist.stream \o data,
        events |-> connHist.events \o c.emitted]
  /\ UNCHANGED <<torrent, storeVars, swarmVars, clientVars>>

ConnBegin == [conn EXCEPT !.emitted = <<>>]

\* The socket's 'data' event.  A destroyed socket delivers none.
OnData(data) ==
  /\ ~conn.destroyed
  /\ connHist.chunks < MaxChunks
  /\ Record(handleData(ConnBegin, data), data)

\* The socket's 'error' event.
OnSocketError ==
  /\ ~conn.destroyed
  /\ Record(handleError(ConnBegin), <<>>)

\* The socket's 'close' event, once per socket: after the peer has closed
\* the connection, or after the socket was destroyed.
OnSocketClose ==
  /\ ~conn.closed
  /\ Record([handleClose(ConnBegin) EXCEPT !.closed = TRUE], <<>>)

\* KEEPALIVE_INTERVAL, 120 s, in periods of the keep-alive timer, which
\* fires every KEEPALIVE_INTERVAL / 2.
KEEPALIVE_INTERVAL == 2

MaxIdle == 4

\* The callback of the keep-alive timer (startKeepAlive), a period after the
\* last one; cleanup has not cleared the timer.  After KEEPALIVE_INTERVAL
\* without bytes from the peer a keep-alive is written, and 'error' is
\* emitted if the write fails; the time without bytes has no other effect.
KeepAliveTimer(writeFails) ==
  /\ ~conn.destroyed
  /\ idle < MaxIdle
  /\ writeFails => idle + 1 >= KEEPALIVE_INTERVAL
  /\ conn' = IF writeFails THEN connEmit(ConnBegin, "error", NoArg)
             ELSE ConnBegin
  /\ idle' = idle + 1
  /\ connHist' =
       [connHist EXCEPT
          !.terminal = Min(2, @ + (IF writeFails THEN 1 ELSE 0)),
          !.after = @ \/ (connHist.terminal > 0 /\ writeFails),
          !.data = <<>>]
  /\ UNCHANGED <<torrent, storeVars, swarmVars, clientVars>>

\* The scheduler asks for a block, or cancels a request.
CallSendRequest ==
  /\ conn.handshakeComplete
  /\ conn.inflight < MaxInflight
  /\ Record(connSendRequest(ConnBegin), <<>>)

CallSendCancel ==
  /\ conn.handshakeComplete
  /\ conn.inflight > 0
  /\ Record(connSendCancel(ConnBegin), <<>>)

\* ------------------------------------------------------------------------
\* The orchestrator (src/src/client.ts): start, stop, announces, dial loop
\* ------------------------------------------------------------------------

\* The addresses the tracker knows, in the order it returns them.
Addresses == <<"a", "b">>

\* options.maxPeers.
MaxPeers == 1

\* The PeerConnection objects created, the ticks of the dial timer and the
\* announces made in a run are bounded.
MaxObjects == 3

MaxTicks == 2

MaxAnnounces == 3

Objects == 1 .. MaxObjects

NoObject == 0

\* A PeerConnection the dial loop has not created yet, and one it has just
\* created (connectToPeer 501-512): socket, whether a valid handshake of the
\* peer has been received.
NoSession == [address |-> "none", sock |-> "none", handshake |-> FALSE]

NewSession(address) ==
  [address |-> address, sock |-> "connecting", handshake |-> FALSE]

\* The fields of TorrentClient: status; storage ("none" for undefined,
\* "closed" once stop() has closed it) and whether storage.isComplete();
\* scheduler ("none" for undefined) and scheduler.peers; tracker; the three
\* timers; connectedPeers, knownPeers.  With them: the PeerConnection
\* objects; how far start() and stop() have come; the dial loops
\* (tryConnectToPeers) waiting for a connect, each with the object it waits
\* for and the addresses it has still to try; the announces the tracker has
\* not answered; and the announces made so far.
NewClient ==
  [status |-> "stopped", storage |-> "none", storeComplete |-> FALSE,
   scheduler |-> "none", schedPeers |-> {}, tracker |-> FALSE,
   announceTimer |-> FALSE, statsTimer |-> FALSE, peerConnectTimer |-> FALSE,
   connectedPeers |-> [a \in Range(Addresses) |-> NoObject],
   knownPeers |-> {},
   objs |-> [o \in Objects |-> NoSession],
   startAt |-> "idle", stopAt |-> "idle",
   loops |-> {}, pending |-> <<>>, log |-> <<>>]

\* What happened last, and what the run has been through: whether the store
\* was complete right after initialization, the ticks of the dial timer,
\* how far start() had come when stop() was called.
ClientInit ==
  /\ cl = NewClient
  /\ clHist = [last |-> [op |-> "init", by |-> "none", ok |-> TRUE],
               initComplete |-> FALSE, ticks |-> 0, stopDuring |-> "none"]

Last(op, by, ok) == [op |-> op, by |-> by, ok |-> ok]

SetClient(c, last) ==
  /\ cl' = c
  /\ clHist' = [last |-> last,
                initComplete |-> clHist.initComplete
                                   \/ (last.op = "init_settles" /\ last.by = "complete"),
                ticks |-> clHist.ticks + (IF last.op = "dial_tick" THEN 1 ELSE 0),
                stopDuring |-> IF last.op = "stop" THEN cl.startAt
                               ELSE clHist.stopDuring]
  /\ UNCHANGED <<torrent, storeVars, swarmVars, connVars>>

\* announceToTracker up to its await: nothing without tracker or storage,
\* else the request goes to the tracker.
announceToTracker(c, event, by) ==
  IF ~c.tracker \/ c.storage = "none" \/ c.storage = "closed"
  THEN c
  ELSE [c EXCEPT !.pending = Append(@, [event |-> event, by |-> by]),
                 !.log = Append(@, [event |-> event, by |-> by])]

Created(c) == Cardinality({o \in Objects : c.objs[o].sock # "none"})

\* The loop of tryConnectToPeers from the address it comes to next up to its
\* next await: connectToPeer returns at once for an address in
\* connectedPeers, and else creates a PeerConnection and awaits connect().
RECURSIVE dialLoop(_, _)
dialLoop(c, todo) ==
  IF todo = <<>> THEN c
  ELSE IF c.connectedPeers[Head(todo)] # NoObject
  THEN dialLoop(c, Tail(todo))
  ELSE [c EXCEPT !.objs[Created(c) + 1] = NewSession(Head(todo)),
                 !.loops = @ \cup {[cur |-> Created(c) + 1, todo |-> Tail(todo)]}]

\* Whether the objects of the model suffice for dialLoop(c, todo).
CanDial(c, todo) ==
  \/ \A i \in 1 .. Len(todo) : c.connectedPeers[todo[i]] # NoObject
  \/ Created(c) < MaxObjects

connectedSize(c) ==
  Cardinality({a \in Range(Addresses) : c.connectedPeers[a] # NoObject})

\* The addresses tryConnectToPeers sets out to dial.
peersToConnect(c) ==
  LET availablePeers ==
        SelectSeq(Addresses,
                  LAMBDA a : a \in c.knownPeers /\ c.connectedPeers[a] = NoObject)
  IN IF connectedSize(c) >= MaxPeers THEN <<>>
     ELSE SubSeq(availablePeers, 1,
                 Min(Len(availablePeers), MaxPeers - connectedSize(c)))

tryConnectToPeers(c) == dialLoop(c, peersToConnect(c))

\* The listener of the orchestrator on 'error' of a session (549-556), with
\* removePeer of the scheduler.
onPeerError(c, o) ==
  [c EXCEPT !.connectedPeers[c.objs[o].address] = NoObject,
            !.schedPeers = @ \ {o}]

\* handleDownloadComplete up to its await.
handleDownloadComplete(c) ==
  IF c.status = "completed" THEN c
  ELSE announceToTracker([c EXCEPT !.status = "completed"], "completed", "complete")

\* stop() from the end of its final announce on: the scheduler is destroyed
\* and the store, if there is one, is closed.
stopCleanup(c) ==
  LET d == [c EXCEPT !.scheduler = "none", !.schedPeers = {}]
  IN IF d.storage = "open"
     THEN [d EXCEPT !.stopAt = "close"]
     ELSE [d EXCEPT !.status = "stopped", !.stopAt = "done"]

\* ----- steps of the orchestrator -----

\* start() up to await storage.initialize().  One run is modelled: start()
\* is not called again after stop().
Start ==
  /\ cl.status = "stopped"
  /\ cl.startAt = "idle"
  /\ SetClient([cl EXCEPT !.status = "starting", !.storage = "open",
                          !.startAt = "init"],
               Last("start", "none", TRUE))

\* storage.initialize() settles: it failed, or the store is complete
\* already, or the download starts with the 'started' announce.  After a
\* stop() in between this.storage is undefined and isComplete() throws.
InitSettles(outcome) ==
  /\ cl.startAt = "init"
  /\ SetClient(
       IF outcome = "fails" \/ cl.storage # "open"
       THEN [cl EXCEPT !.status = "error", !.startAt = "done"]
       ELSE IF outcome = "complete"
       THEN [cl EXCEPT !.storeComplete = TRUE, !.status = "completed",
                       !.startAt = "done"]
       ELSE announceToTracker(
              [cl EXCEPT !.scheduler = "live", !.tracker = TRUE,
                         !.status = "downloading", !.startAt = "announce"],
              "started", "start"),
       Last("init_settles",
            IF outcome = "complete" /\ cl.storage = "open" THEN "complete"
            ELSE "none",
            outcome # "fails" /\ cl.storage = "open"))

\* tracker.announce settles, after its retries: for start() (176-186, and
\* the catch 183-188), for the announce timer (434-442), for
\* handleDownloadComplete (595-606) or for stop() (224-231).
AnnounceSettles(i, ok, found) ==
  /\ i \in 1 .. Len(cl.pending)
  /\ LET by == cl.pending[i].by
         rest == [cl EXCEPT
                    !.pending = SubSeq(@, 1, i - 1) \o SubSeq(@, i + 1, Len(@)),
                    !.knownPeers = IF ok THEN @ \cup found ELSE @]
     IN SetClient(
          IF by = "start"
          THEN IF ok
               THEN [rest EXCEPT !.announceTimer = TRUE, !.statsTimer = TRUE,
                                 !.peerConnectTimer = TRUE, !.startAt = "done"]
               ELSE [rest EXCEPT !.status = "error", !.startAt = "done"]
          ELSE IF by = "stop" THEN stopCleanup(rest)
          ELSE rest,
          Last("announce_settles", by, ok))

\* The callback of the announce timer.
AnnounceTick ==
  /\ cl.announceTimer
  /\ Len(cl.log) < MaxAnnounces
  /\ SetClient(announceToTracker(
                 cl, IF cl.status = "completed" THEN "completed" ELSE "started",
                 "timer"),
               Last("announce_tick", "timer", TRUE))

\* The callback of the dial timer.
DialTick ==
  /\ cl.peerConnectTimer
  /\ clHist.ticks < MaxTicks
  /\ CanDial(cl, peersToConnect(cl))
  /\ SetClient(tryConnectToPeers(cl), Last("dial_tick", "none", TRUE))

\* peer.connect() settles for a dial loop: connected and handshake written;
\* or the 10 s are over and the socket is destroyed; or the socket has
\* failed, on which the session also emits 'error'.  Then the loop goes on.
ConnectSettles(loop, outcome) ==
  /\ loop \in cl.loops
  /\ LET o == loop.cur
         a == cl.objs[o].address
         rest == [cl EXCEPT !.loops = @ \ {loop}]
         done ==
           IF outcome = "connected"
           THEN [rest EXCEPT
                   !.objs[o].sock = "open",
                   !.schedPeers = IF rest.scheduler = "live" THEN @ \cup {o} ELSE @,
                   !.connectedPeers[a] = o]
           ELSE IF outcome = "timeout"
           THEN [rest EXCEPT !.objs[o].sock = "destroyed"]
           ELSE onPeerError([rest EXCEPT !.objs[o].sock = "destroyed"], o)
     IN /\ CanDial(done, loop.todo)
        /\ SetClient(dialLoop(done, loop.todo),
                     Last("connect_settles", "none", outcome = "connected"))

\* The peer's handshake arrives and is valid.
PeerHandshake(o) ==
  /\ cl.objs[o].sock = "open"
  /\ ~cl.objs[o].handshake
  /\ SetClient([cl EXCEPT !.objs[o].handshake = TRUE],
               Last("handshake", "none", TRUE))

\* The socket of a session closes: the session emits 'close', which the
\* scheduler listens to (scheduler.ts 125) and the orchestrator does not
\* (it listens to 'disconnect', which no session emits).
PeerCloses(o) ==
  /\ cl.objs[o].sock = "open"
  /\ SetClient([cl EXCEPT !.objs[o].sock = "destroyed",
                          !.schedPeers = @ \ {o}],
               Last("close", "none", TRUE))

\* A session emits 'error': its socket has failed and is destroyed, or the
\* peer has sent bytes that do not parse and the socket stays open.
PeerErrors(o, socketFailed) ==
  /\ cl.objs[o].sock = "open"
  /\ SetClient(onPeerError(
                 [cl EXCEPT !.objs[o].sock =
                              IF socketFailed THEN "destroyed" ELSE @], o),
               Last("error", "none", TRUE))

\* The store completes its last piece while a session of the scheduler is
\* connected: its events reach handleDownloadComplete (340-360).
StoreCompletes ==
  /\ cl.storage = "open"
  /\ ~cl.storeComplete
  /\ \E o \in cl.schedPeers : cl.objs[o].sock = "open"
  /\ SetClient(handleDownloadComplete([cl EXCEPT !.storeComplete = TRUE]),
               Last("store_completes", "none", TRUE))

\* stop() up to its first await: the timers are cleared, the sessions of
\* connectedPeers destroyed, the 'stopped' announce is made.
Stop ==
  /\ cl.status # "stopped"
  /\ cl.stopAt = "idle"
  /\ LET cleared ==
           [cl EXCEPT
              !.announceTimer = FALSE, !.statsTimer = FALSE,
              !.peerConnectTimer = FALSE,
              !.objs = [o \in Objects |->
                          IF \E a \in Range(Addresses) : cl.connectedPeers[a] = o
                          THEN [@[o] EXCEPT !.sock = "destroyed"] ELSE @[o]],
              !.connectedPeers = [a \in Range(Addresses) |-> NoObject],
              !.stopAt = "announce"]
         announced == announceToTracker(cleared, "stopped", "stop")
     IN SetClient(IF announced = cleared THEN stopCleanup(cleared) ELSE announced,
                  Last("stop", "none", TRUE))

\* storage.close() settles and stop() ends.
StopCloseSettles ==
  /\ cl.stopAt = "close"
  /\ SetClient([cl EXCEPT !.storage = "closed", !.status = "stopped",
                          !.stopAt = "done"],
               Last("stop_done", "none", TRUE))

\* ------------------------------------------------------------------------
\* SpecStore: the store under arbitrary addBlock calls
\* ------------------------------------------------------------------------

\* The correct bytes of piece p from offset b on, n of them, and n wrong
\* bytes.
GoodData(p, b, n) == [i \in 1 .. n |-> PieceContent(p)[b + i]]

BadData(n) == [i \in 1 .. n |-> 0]

\* The blocks delivered for offset b of piece p (b inside the piece): the
\* right bytes, wrong bytes of the right length, and a block of every other
\* length up to the block size.
BlockDataInputs(p, b) ==
  {GoodData(p, b, Min(torrent.blockSize, PieceLen(p) - b)),
   BadData(Min(torrent.blockSize, PieceLen(p) - b))}
  \cup {BadData(n) : n \in 1 .. torrent.blockSize}

\* The offsets tried for piece p: the block offsets, the offset after each
\* of them (not a multiple of the block size), -1 and the piece length.
OffsetInputs(p) ==
  BlockOffsets(p) \cup {b + 1 : b \in BlockOffsets(p)} \cup {-1, PieceLen(p)}

\* The calls made: every piece with each of these offsets, each offset
\* inside the piece with each kind of block, and one call for each piece
\* index out of range.
AddBlockInputs ==
  UNION {UNION {{<<p, b, d>> :
                   d \in IF b >= 0 /\ b < PieceLen(p)
                         THEN BlockDataInputs(p, b) ELSE {BadData(1)}} :
                  b \in OffsetInputs(p)} :
           p \in Pieces}
  \cup {<<p, 0, BadData(1)>> : p \in {-1, NumPieces}}

\* The completions counted so far, or waiting for the final check, are capped.
CallAddBlock ==
  /\ verifiedPieces + dlcPending < MaxVerified
  /\ \E call \in AddBlockInputs : AddBlock(call[1], call[2], call[3])
  /\ UNCHANGED <<torrent, swarmVars, connVars, clientVars>>

\* The continuations of the store's completePiece.  The listeners of the
\* orchestrator on the store's events (client.ts 337-360) touch neither the
\* scheduler nor a session.
StoreIO ==
  /\ \/ \E p \in Pieces, ok \in BOOLEAN :
          \E data \in WriteOutcomes(p) : WriteSettles(p, ok, data)
     \/ \E p \in Pieces, ok \in BOOLEAN : SyncSettles(p, ok)
     \/ \E ok \in BOOLEAN : DownloadCompleteSettles(ok)
  /\ UNCHANGED <<torrent, swarmVars, connVars, clientVars>>

\* The torrent of the bounds, with the window of the bounds.
SmallTorrent ==
  [length |-> TotalLength, pieceLength |-> PieceLength,
   blockSize |-> BlockSize, windowSize |-> WindowSize]

Init ==
  /\ torrent = SmallTorrent
  /\ StoreInit /\ SwarmInit /\ ConnInit /\ ClientInit

NextStore ==
  \/ CallAddBlock
  \/ StoreIO

SpecStore == Init /\ [][NextStore]_vars

\* ------------------------------------------------------------------------
\* SpecSwarm: sessions, scheduler and store as the orchestrator wires them
\* ------------------------------------------------------------------------

NextSwarm ==
  \/ \E s \in Sessions : Connect(s)
  \/ \E s \in Sessions : RecvHandshake(s)
  \/ \E s \in Sessions : RecvChoke(s)
  \/ \E s \in Sessions : RecvUnchoke(s)
  \/ \E s \in Sessions, p \in Pieces : RecvHave(s, p)
  \/ \E s \in Sessions, bits \in SUBSET Pieces : RecvBitfield(s, bits)
  \/ \E s \in Sessions, id \in Ids :
       \E block \in BlockDataInputs(id[1], id[2]) :
         RecvPiece(s, id[1], id[2], block)
  \/ \E s \in Sessions : ProtocolError(s)
  \/ \E s \in Sessions : HandleClose(s)
  \/ \E s \in Sessions : SendSettles(s)
  \/ HandleTimeouts
  \/ StoreIO

SpecSwarm == Init /\ [][NextSwarm]_vars

\* ------------------------------------------------------------------------
\* SpecDownload: two sessions that are connected and follow the protocol
\* ------------------------------------------------------------------------

\* Both sessions have been connected, added to the scheduler and have
\* completed the handshake: the state SpecSwarm is in after Connect and
\* RecvHandshake of each.  The first scheduling pass (addPeer) has run.
BothConnected ==
  /\ StoreInit
  /\ ConnInit
  /\ ClientInit
  /\ sess = [s \in Sessions |->
               [phase |-> "open", handshakeComplete |-> TRUE,
                choked |-> TRUE, interested |-> FALSE, bitfield |-> {},
                inflight |-> 0]]
  /\ peers = Sessions
  /\ peerBitfields = [s \in Sessions |-> NoBitfield]
  /\ peerRequests = [s \in Sessions |-> <<>>]
  /\ activeRequests = [id \in Ids |-> None]
  /\ pieceProgress = [p \in Pieces |-> NewProgress(p)]
  /\ completedPieces = {}
  /\ availabilityMap = [p \in Pieces |-> 0]
  /\ endgameActive = (Cardinality(Ids) <= ENDGAME_THRESHOLD)
  /\ pendingSends = [s \in Sessions |-> <<>>]
  /\ sent = [s \in Sessions |-> <<>>]
  /\ schEvents = <<>>
  /\ outstanding = [s \in Sessions |-> [id \in Ids |-> 0]]
  /\ eventCount = 0
  /\ step = Step("handshake", CHOOSE s \in Sessions : TRUE, NoId)

InitDownload ==
  /\ torrent = SmallTorrent
  /\ BothConnected

\* The peer announces a piece it has not announced yet.
PeerHave(s, pieceIndex) ==
  /\ pieceIndex \notin sess[s].bitfield
  /\ RecvHave(s, pieceIndex)

\* The peer unchokes us.
PeerUnchoke(s) ==
  /\ sess[s].choked
  /\ RecvUnchoke(s)

\* The peer answers a request that has reached it (the write has settled),
\* with the right bytes or with wrong bytes of the right length.
PeerPiece(s, id, good) ==
  /\ outstanding[s][id] > 0
  /\ \A i \in 1 .. Len(pendingSends[s]) : pendingSends[s][i].id # id
  /\ RecvPiece(s, id[1], id[2],
               IF good THEN GoodData(id[1], id[2], getBlockLength(id[1], id[2]))
               ELSE BadData(getBlockLength(id[1], id[2])))

NextDownload ==
  \/ \E s \in Sessions, p \in Pieces : PeerHave(s, p)
  \/ \E s \in Sessions : PeerUnchoke(s)
  \/ \E s \in Sessions, id \in Ids, good \in BOOLEAN : PeerPiece(s, id, good)
  \/ \E s \in Sessions : SendSettles(s)
  \/ HandleTimeouts

SpecDownload == InitDownload /\ [][NextDownload]_vars

\* The event loop runs every callback that is ready: a write that has
\* completed settles.  Nothing makes a peer send a message.
FairDownload == SpecDownload /\ \A s \in Sessions : WF_vars(SendSettles(s))

\* ------------------------------------------------------------------------
\* SpecLarge: the same two sessions on a torrent of more blocks than the
\* endgame threshold, so that the first passes run with endgame off
\* ------------------------------------------------------------------------

\* Two pieces of this many blocks of one byte.
LargePieceLength == 11

\* The events of the peers in a run on this torrent.
MaxLargeEvents == 5

LargeTorrent ==
  [length |-> 2 * LargePieceLength, pieceLength |-> LargePieceLength,
   blockSize |-> 1, windowSize |-> WindowSize]

InitLarge ==
  /\ torrent = LargeTorrent
  /\ BothConnected

\* The peer chokes us.
PeerChoke(s) ==
  /\ ~sess[s].choked
  /\ RecvChoke(s)

\* The peer answers a request that has reached it with a block that is one
\* byte too long.
PeerPieceTooLong(s, id) ==
  /\ outstanding[s][id] > 0
  /\ \A i \in 1 .. Len(pendingSends[s]) : pendingSends[s][i].id # id
  /\ RecvPiece(s, id[1], id[2], BadData(getBlockLength(id[1], id[2]) + 1))

NextLarge ==
  \/ \E s \in Sessions, p \in Pieces :
       eventCount < MaxLargeEvents /\ PeerHave(s, p)
  \/ \E s \in Sessions : eventCount < MaxLargeEvents /\ PeerUnchoke(s)
  \/ \E s \in Sessions : eventCount < MaxLargeEvents /\ PeerChoke(s)
  \/ \E s \in Sessions, id \in Ids :
       eventCount < MaxLargeEvents /\ PeerPiece(s, id, TRUE)
  \/ \E s \in Sessions, id \in Ids :
       eventCount < MaxLargeEvents /\ PeerPieceTooLong(s, id)
  \/ eventCount < MaxLargeEvents /\ HandleTimeouts
  \/ \E s \in Sessions : SendSettles(s)

SpecLarge == InitLarge /\ [][NextLarge]_vars

\* ------------------------------------------------------------------------
\* SpecRarest: three pieces, session A with pieces 0 and 1, session B with
\* pieces 1 and 2, a window of 4 (scheduler.test.ts 229-260)
\* ------------------------------------------------------------------------

\* The pieces of the torrents of this specification have from one block, as
\* in scheduler.test.ts, to this many blocks.
MaxBlocksPerPiece == 4

RarestTorrent(n) ==
  [length |-> 3 * n, pieceLength |-> n, blockSize |-> 1, windowSize |-> 4]

\* What each session advertises.
Advertised(s) == IF s = "A" THEN {0, 1} ELSE {1, 2}

InitRarest ==
  /\ torrent \in {RarestTorrent(n) : n \in 1 .. MaxBlocksPerPiece}
  /\ BothConnected

\* The peer sends its bitfield, as the first message after the handshake.
PeerBitfield(s) ==
  /\ peerBitfields[s] = NoBitfield
  /\ sess[s].choked
  /\ RecvBitfield(s, Advertised(s))

\* The peer unchokes us once both bitfields are known.
PeerUnchokeAdvertised(s) ==
  /\ \A t \in Sessions : peerBitfields[t] # NoBitfield
  /\ PeerUnchoke(s)

NextRarest ==
  \/ \E s \in Sessions : PeerBitfield(s)
  \/ \E s \in Sessions : PeerUnchokeAdvertised(s)
  \/ \E s \in Sessions, id \in Ids : PeerPiece(s, id, TRUE)
  \/ \E s \in Sessions : SendSettles(s)

SpecRarest == InitRarest /\ [][NextRarest]_vars

\* ------------------------------------------------------------------------
\* SpecSession: one session and the bytes that arrive on its socket
\* ------------------------------------------------------------------------

NextSession ==
  \/ \E data \in Chunks : OnData(data)
  \/ OnSocketError
  \/ OnSocketClose
  \/ CallSendRequest
  \/ CallSendCancel

SpecSession == Init /\ [][NextSession]_vars

\* ------------------------------------------------------------------------
\* SpecIdle: one session, the bytes that arrive and the time that passes
\* ------------------------------------------------------------------------

\* What the peer sends between its silences: its handshake, a frame, a
\* keep-alive.
IdleChunks == {ValidHandshake, ChokeFrame, UInt32(0)}

NextIdle ==
  \/ \E data \in IdleChunks : OnData(data)
  \/ \E writeFails \in BOOLEAN : KeepAliveTimer(writeFails)
  \/ OnSocketError
  \/ OnSocketClose

SpecIdle == Init /\ [][NextIdle]_vars

\* ------------------------------------------------------------------------
\* SpecClient: the orchestrator, its tracker, its timers and its dials
\* ------------------------------------------------------------------------

NextClient ==
  \/ Start
  \/ \E outcome \in {"fails", "complete", "download"} : InitSettles(outcome)
  \/ \E i \in 1 .. Len(cl.pending), ok \in BOOLEAN,
        found \in {{}, Range(Addresses)} : AnnounceSettles(i, ok, found)
  \/ AnnounceTick
  \/ DialTick
  \/ \E loop \in cl.loops, outcome \in {"connected", "timeout", "error"} :
       ConnectSettles(loop, outcome)
  \/ \E o \in Objects : PeerHandshake(o)
  \/ \E o \in Objects : PeerCloses(o)
  \/ \E o \in Objects, socketFailed \in BOOLEAN : PeerErrors(o, socketFailed)
  \/ StoreCompletes
  \/ Stop
  \/ StopCloseSettles

SpecClient == Init /\ [][NextClient]_vars

\* ------------------------------------------------------------------------
\* Properties of the Piece Store
\* ------------------------------------------------------------------------

Emitted(type, pieceIndex) ==
  \E i \in 1 .. Len(stEvents) : stEvents[i] = Ev(type, pieceIndex)

EmittedNext(type, pieceIndex) ==
  \E i \in 1 .. Len(stEvents') : stEvents'[i] = Ev(type, pieceIndex)

storeData == <<pieceBuffers, stCompletedPieces, verifiedPieces, writtenBytes,
               file, stStage, stWriting, dlcPending>>

\* C1: for every piece in the CompletionSet, the bytes of the output file at
\* the piece's offset, of the piece's length, hash to the piece's hash.
C1_CompletedPiecesOnDisk ==
  \A p \in stCompletedPieces : HashMatches(p, FileSlice(file, p))

\* The buffer of piece p as the call of this step found it.
BufferBefore(p) == GetOrCreateBuffer(Store, p)

\* C4: when addBlock adds the last missing block of a piece that is not
\* complete, either the assembled bytes match the hash and the write is
\* started, or the store emits piece_hash_failed, leaves the file and the
\* CompletionSet as they were (the piece outside it), and discards the
\* buffer, which leaves the piece as if never touched.
C4_HashFailureDiscards ==
  [][\A p \in Pieces \ stCompletedPieces :
       (/\ stCall' # NoCall
        /\ stCall'.pieceIndex = p
        /\ stCall'.blockOffset \notin BufferBefore(p).receivedBlocks
        /\ Cardinality(BufferBefore(p).receivedBlocks) = expectedBlocks(p) - 1)
       => \/ /\ stStage'[p] = "write_wait"
             /\ HashMatches(p, pieceBuffers'[p].data)
          \/ /\ EmittedNext("piece_hash_failed", p)
             /\ ~EmittedNext("piece_completed", p)
             /\ file' = file
             /\ stCompletedPieces' = stCompletedPieces
             /\ pieceBuffers'[p] = NoBuffer
             /\ stStage'[p] = "idle"]_storeVars

\* C4 witness: a hash failure has just been reported for a piece that is
\* not complete and has no buffer left.
C4_Witness ==
  \E p \in Pieces :
    /\ Emitted("piece_hash_failed", p)
    /\ p \notin stCompletedPieces
    /\ pieceBuffers[p] = NoBuffer

\* C5: a piece enters the CompletionSet, and piece_completed is emitted for
\* it, only in the step in which its sync succeeds, after its write
\* succeeded; a failed write or sync adds nothing to the CompletionSet and
\* emits no piece_completed.
C5_CompleteOnlyAfterWriteAndSync ==
  [][/\ \A p \in Pieces :
          (p \in stCompletedPieces' \ stCompletedPieces \/ EmittedNext("piece_completed", p))
          => (stStage[p] = "sync_wait" /\ stResult' = "sync_ok")
     /\ stResult' \in {"write_failed", "sync_failed"}
          => (/\ stCompletedPieces' = stCompletedPieces
              /\ \A p \in Pieces : ~EmittedNext("piece_completed", p)
              /\ \E p \in Pieces : EmittedNext("piece_write_failed", p))]_storeVars

\* C5 witness: a piece has just been completed by a successful sync.
C5_Witness ==
  \E p \in Pieces :
    /\ stResult = "sync_ok"
    /\ Emitted("piece_completed", p)
    /\ p \in stCompletedPieces

\* C8: addBlock for a piece of the CompletionSet is discarded: no buffer, no
\* verification or write, no event, counters unchanged.
C8_CompletedPieceDiscarded ==
  [][(stCall' # NoCall /\ stCall'.pieceIndex \in stCompletedPieces)
       => (UNCHANGED storeData /\ stEvents' = <<>>)]_storeVars

\* C9: addBlock fails, and changes nothing, when pieceIndex is out of range,
\* begin is not a multiple of blockSize, begin is at or beyond the piece
\* length, or the data length is not min(blockSize, pieceLength - begin).
\* (A call that fails leaves stCall empty, so the calls to look at are the
\* ones that went through.)
C9_InvalidBlockFails ==
  [][/\ stResult' = "StorageError" => UNCHANGED storeData
     /\ stCall' # NoCall =>
          /\ stCall'.pieceIndex \in Pieces
          /\ stCall'.blockOffset % torrent.blockSize = 0
          /\ stCall'.blockOffset < PieceLen(stCall'.pieceIndex)]_storeVars

\* C10: a second addBlock for an offset the buffer of the piece already
\* holds changes neither the buffer, nor the received blocks, nor a counter,
\* and starts no completion.
C10_DuplicateBlockIgnored ==
  [][(/\ stCall' # NoCall
      /\ pieceBuffers[stCall'.pieceIndex] # NoBuffer
      /\ stCall'.blockOffset \in pieceBuffers[stCall'.pieceIndex].receivedBlocks)
       => (UNCHANGED storeData /\ stEvents' = <<>>)]_storeVars

\* C10 witness: a call has just returned as a duplicate (addBlock returns
\* without an event only there), the piece still being assembled.
C10_Witness ==
  /\ stCall # NoCall
  /\ stResult = "returned"
  /\ stEvents = <<>>
  /\ \E p \in Pieces :
       /\ pieceBuffers[p] # NoBuffer
       /\ pieceBuffers[p].receivedBlocks # {}
       /\ Cardinality(pieceBuffers[p].receivedBlocks) < expectedBlocks(p)

\* ------------------------------------------------------------------------
\* Properties of the swarm
\* ------------------------------------------------------------------------

RECURSIVE countSum(_, _)
countSum(f, S) ==
  IF S = {} THEN 0
  ELSE LET x == CHOOSE y \in S : TRUE IN f[x] + countSum(f, S \ {x})

\* The requests written to s and neither answered by s nor cancelled (a
\* timeout cancels).
InFlight(s) == countSum(outstanding[s], Ids)

\* C2: in every reachable state, for every session, the number of requests
\* sent to it and not yet answered, cancelled or timed out is at most the
\* window W.
C2_WindowRespected == \A s \in Sessions : InFlight(s) <= torrent.windowSize

\* C3: after every event, for every piece, AvailabilityMap[p] is the number
\* of sessions the scheduler tracks whose bitfield (the one the scheduler
\* holds for the session) has bit p set.
C3_AvailabilityCountsBitfields ==
  \A p \in Pieces :
    availabilityMap[p] = Cardinality({s \in peers : p \in bitfieldBits(World, s)})

\* C6: a have for piece p is written to a session only in a state where p
\* is in the CompletionSet of the store.
C6_HaveOnlyForStoredPieces ==
  \A s \in Sessions : \A i \in 1 .. Len(sent[s]) :
    sent[s][i].type = "have" => sent[s][i].index \in stCompletedPieces

\* C7: when the write or the sync of a piece has failed, the store has
\* emitted piece_write_failed, has no buffer for the piece and does not have
\* it in the CompletionSet, and the scheduler has the piece to download
\* again: not completed, with all its blocks needed.
C7_WriteFailureRedownloads ==
  \A p \in Pieces :
    Emitted("piece_write_failed", p)
    => /\ p \notin stCompletedPieces
       /\ pieceBuffers[p] = NoBuffer
       /\ p \notin completedPieces
       /\ pieceProgress[p] # NoProgress
       /\ Range(pieceProgress[p].availableBlocks) = BlockOffsets(p)

\* The scheduler emitted this event in the last step.
schEmitted(type, pieceIndex) ==
  \E i \in 1 .. Len(schEvents) : schEvents[i] = Ev(type, pieceIndex)

schEmittedNext(type, pieceIndex) ==
  \E i \in 1 .. Len(schEvents') : schEvents'[i] = Ev(type, pieceIndex)

\* C11: when the first copy of a block arrives from session s (a request
\* for the block is tracked and the block has the right length), every
\* other session t that has the same request in its request set is sent
\* cancel(piece, begin, length), the request leaves t's request set, and
\* the number of requests tracked for t decreases.
C11_DuplicatesCancelled ==
  [][\A s \in Sessions, t \in Sessions, id \in Ids :
       (/\ eventCount' # eventCount
        /\ step' = Step("piece", s, id)
        /\ t # s
        /\ activeRequests[id] # None
        /\ ~schEmittedNext("block_error", id[1])
        /\ id \in Range(peerRequests[t]))
       => (/\ Msg("cancel", id[1], id[2]) \in Range(sent'[t])
           /\ id \notin Range(peerRequests'[t])
           /\ Len(peerRequests'[t]) < Len(peerRequests[t]))]_vars

\* The events whose handler always ends in a scheduling pass: addPeer,
\* handlePeerUnchoke, handlePeerBitfield.
AlwaysSchedules == {"connect", "unchoke", "bitfield"}

RequestsSent(s) == SelectSeq(sent[s], LAMBDA m : m.type = "request")

\* The blocks of piece p a request may be made for: the needed ones and, in
\* endgame, the requested ones.
OpenBlocks(p) ==
  IF pieceProgress[p] = NoProgress THEN {}
  ELSE Range(pieceProgress[p].availableBlocks)
       \cup (IF endgameActive THEN Range(pieceProgress[p].requestedBlocks) ELSE {})

\* The candidate set of session s: pieces not completed, set in the bitfield
\* of s, with a block still needed or, in endgame, requested.
Candidates(s) ==
  {p \in Pieces :
     /\ p \notin completedPieces
     /\ p \in bitfieldBits(World, s)
     /\ OpenBlocks(p) # {}}

\* The candidates with a block that is not already tracked as requested
\* from s.
Requestable(s) ==
  {p \in Candidates(s) :
     \E b \in OpenBlocks(p) : activeRequests[getRequestId(p, b)] # s}

\* p comes before q in rarest-first order.
Rarer(p, q) ==
  \/ availabilityMap[p] < availabilityMap[q]
  \/ availabilityMap[p] = availabilityMap[q] /\ p < q

\* The requests of a pass go piece by piece in rarest-first order.
InRarestOrder(reqs) ==
  \A i \in 1 .. Len(reqs), j \in 1 .. Len(reqs) :
    i < j => (reqs[i].index = reqs[j].index \/ Rarer(reqs[i].index, reqs[j].index))

C14_ExpiredRequestsCancelled ==
  [][(eventCount' # eventCount /\ step'.op = "timeouts")
       => \A s \in Sessions : \A id \in Range(peerRequests[s]) :
            /\ Msg("cancel", id[1], id[2]) \in Range(sent'[s])
            /\ activeRequests'[id] = None
            /\ id \notin Range(peerRequests'[s])
            /\ pieceProgress'[id[1]] # NoProgress
                 => id[2] \in Range(pieceProgress'[id[1]].availableBlocks)]_vars

\* Session s owns no tracked request in the state named by the arguments.
OwnsNoRequest(s, requests, active) ==
  /\ requests[s] = <<>>
  /\ \A id \in Ids : active[id] # s

\* C15: the step that processes a choke from s leaves every block s had
\* in its request set in the needed set, and in every state in which s
\* chokes us (from its choke until its next unchoke) s owns no tracked
\* request.
C15_ChokedOwnsNoRequest ==
  [][\A s \in Sessions :
       /\ (eventCount' # eventCount /\ step' = Step("choke", s, NoId))
            => \A id \in Range(peerRequests[s]) :
                 pieceProgress'[id[1]] # NoProgress
                 => id[2] \in Range(pieceProgress'[id[1]].availableBlocks)
       /\ sess'[s].choked => OwnsNoRequest(s, peerRequests', activeRequests')]_vars

\* C16: the step that removes session s from the scheduler (removePeer
\* called on its close or error event) leaves every block s had in its
\* request set in the needed set, and in every later state, s being out of
\* the scheduler's peer set, no tracked request is owned by s.
C16_RemovedOwnsNoRequest ==
  [][\A s \in Sessions :
       /\ (s \in peers /\ s \notin peers')
            => \A id \in Range(peerRequests[s]) :
                 pieceProgress'[id[1]] # NoProgress
                 => id[2] \in Range(pieceProgress'[id[1]].availableBlocks)
       /\ s \notin peers' => OwnsNoRequest(s, peerRequests', activeRequests')]_vars

\* C17: when the piece assembled on the arrival of a block fails SHA-1
\* verification in the scheduler (piece_error), the step leaves the piece
\* with all its blocks needed, none requested and none received, with no
\* request for the piece in the active-request table or in a session's
\* request set, and outside the completed set; no session is removed from
\* the scheduler and no socket is closed.
C17_HashFailureResetsPiece ==
  [][\A p \in Pieces :
       (/\ eventCount' # eventCount
        /\ step'.op = "piece"
        /\ step'.id[1] = p
        /\ schEmittedNext("piece_error", p))
       => /\ pieceProgress'[p] = NewProgress(p)
          /\ \A id \in Ids :
               id[1] = p => /\ activeRequests'[id] = None
                            /\ \A t \in Sessions : id \notin Range(peerRequests'[t])
          /\ p \notin completedPieces'
          /\ peers' = peers
          /\ \A t \in Sessions : sess'[t].phase = sess[t].phase]_vars

\* ------------------------------------------------------------------------
\* Properties of the session
\* ------------------------------------------------------------------------

\* The first 68 bytes carry the protocol string, behind its length, and the
\* local info-hash at its place behind the reserved bytes.
HandshakeMatches(first) ==
  /\ Len(first) = HANDSHAKE_LENGTH
  /\ first[1] = Len(PROTOCOL_STRING)
  /\ SubSeq(first, 2, 20) = PROTOCOL_STRING
  /\ SubSeq(first, 29, 48) = InfoHash

Flags(c) ==
  <<c.choked, c.interested, c.peerChoked, c.peerInterested, c.bitfield>>

connEmitted(c, type) ==
  \E i \in 1 .. Len(c.emitted) : c.emitted[i].type = type

C19_FatalClosesOnce ==
  /\ connHist.terminal <= 1
  /\ connHist.terminal >= 1 => conn.destroyed
  /\ ~connHist.after

\* C20: when the bytes of a 'data' event start, at a frame boundary, with a
\* frame of an unknown message id, the step leaves the session as the bytes
\* behind that frame alone would have left it, the events they cause
\* preceded by 'unknown_message': no flag, bitfield or inflight count
\* changes because of the frame, the socket stays open and no error is
\* emitted because of it.
C20_UnknownFrameIsNoOp ==
  [][\A u \in UnknownFrames :
       (/\ conn.handshakeComplete
        /\ conn.messageBuffer = <<>>
        /\ Len(connHist'.data) >= Len(u)
        /\ SubSeq(connHist'.data, 1, Len(u)) = u)
       => LET follow == subarray(connHist'.data, Len(u), Len(connHist'.data))
              without == handleData(ConnBegin, follow)
          IN /\ conn' = [without EXCEPT
                           !.emitted = <<ConnEv("unknown_message", u[5])>> \o @]
             /\ ~conn'.destroyed
             /\ follow = <<>>
                  => /\ Flags(conn') = Flags(conn)
                     /\ conn'.inflight = conn.inflight
                     /\ ~connEmitted(conn', "error")]_vars

\* The last step has processed an unknown frame with an 'unchoke' frame
\* behind it, which took effect, while a request was in flight.
C20_Witness ==
  /\ \E u \in UnknownFrames : connHist.data = u \o UnchokeFrame
  /\ conn.emitted = <<ConnEv("unknown_message", 255), ConnEv("unchoke", NoArg)>>
  /\ ~conn.choked
  /\ conn.inflight > 0
  /\ ~conn.destroyed

\* ------------------------------------------------------------------------
\* Properties of the scheduler's block states
\* ------------------------------------------------------------------------

ReceivedOffsets(p) == DOMAIN pieceProgress[p].receivedBlocks

\* C30: for every piece that is not complete, the needed offsets
\* (availableBlocks), the requested offsets and the received offsets are
\* pairwise disjoint and together are the block offsets of the piece; a
\* completed piece has no block-state record.
C30_BlockStatesPartition ==
  \A p \in Pieces :
    IF p \in completedPieces
    THEN pieceProgress[p] = NoProgress
    ELSE /\ pieceProgress[p] # NoProgress
         /\ Range(pieceProgress[p].availableBlocks)
              \cap Range(pieceProgress[p].requestedBlocks) = {}
         /\ Range(pieceProgress[p].availableBlocks) \cap ReceivedOffsets(p) = {}
         /\ Range(pieceProgress[p].requestedBlocks) \cap ReceivedOffsets(p) = {}
         /\ Range(pieceProgress[p].availableBlocks)
              \cup Range(pieceProgress[p].requestedBlocks)
              \cup ReceivedOffsets(p) = BlockOffsets(p)

\* ------------------------------------------------------------------------
\* Properties of the inflight counter
\* ------------------------------------------------------------------------

\* The requests a session owns: those the scheduler tracks for it and those
\* written to it whose write has not settled yet.
OwnedRequests(s) == Len(peerRequests[s]) + Len(pendingSends[s])

\* C29: the inflight counter of every session equals the number of requests
\* the session owns.
C29_InflightCountsOwnedRequests ==
  \A s \in Sessions : sess[s].inflight = OwnedRequests(s)

\* ------------------------------------------------------------------------
\* Properties of the session's idle time
\* ------------------------------------------------------------------------

\* C21: a session that has received no bytes for 120 seconds and the time
\* allowed for declaring it dead, MaxIdle timer periods in all, has its
\* socket closed and has emitted a terminal event.
C21_IdleSessionDeclaredDead ==
  idle >= MaxIdle => conn.destroyed /\ connHist.terminal > 0

\* ------------------------------------------------------------------------
\* Properties of the orchestrator
\* ------------------------------------------------------------------------

Tracked(o) ==
  o \in cl.schedPeers \/ \E a \in Range(Addresses) : cl.connectedPeers[a] = o

Announced(event) == {i \in 1 .. Len(cl.log) : cl.log[i].event = event}

NoTimers == ~cl.announceTimer /\ ~cl.statsTimer /\ ~cl.peerConnectTimer

\* C22: the sessions with an open socket that the dial loop has created and
\* the scheduler tracks are never more than maxPeers, also when a tick of
\* the dial timer fires while earlier dials are pending.
C22_ConcurrentSessionsBounded ==
  Cardinality({o \in Objects : cl.objs[o].sock = "open" /\ o \in cl.schedPeers})
    <= MaxPeers

\* C23: in every state each entry of the connected set is a live session
\* (its socket is open), since a close or an error of a session removes its
\* address from the set.
C23_ConnectedEntriesAreLive ==
  \A a \in Range(Addresses) :
    cl.connectedPeers[a] # NoObject
      => cl.objs[cl.connectedPeers[a]].sock = "open"

\* C24: a session is handed to the scheduler and entered in the connected
\* set only after a valid handshake of the peer has been received.
C24_TrackedOnlyAfterHandshake ==
  \A o \in Objects : Tracked(o) => cl.objs[o].handshake

\* C25: event=started is sent by the initial announce only, the announces of
\* the timer carry no event, and event=completed is announced at most once.
C25_AnnounceEvents ==
  /\ \A i \in Announced("started") : cl.log[i].by = "start"
  /\ \A i \in 1 .. Len(cl.log) : cl.log[i].by = "timer" => cl.log[i].event = "none"
  /\ Cardinality(Announced("completed")) <= 1

\* C26: a failed announce (initial, periodic or completed) does not abort
\* the swarm: the status does not become error, and the scheduler, the
\* sessions, the known peers and the dial timer stay as they are.
C26_FailedAnnounceKeepsSwarm ==
  [][(/\ clHist'.last.op = "announce_settles"
      /\ ~clHist'.last.ok
      /\ clHist'.last.by \in {"start", "timer", "complete"})
       => /\ cl'.status # "error"
          /\ cl'.scheduler = cl.scheduler
          /\ cl'.schedPeers = cl.schedPeers
          /\ cl'.objs = cl.objs
          /\ cl'.connectedPeers = cl.connectedPeers
          /\ cl'.knownPeers = cl.knownPeers
          /\ (cl.peerConnectTimer => cl'.peerConnectTimer)]_vars

\* C27: once a stop() called on a started client has ended, the status is
\* stopped, the timers are cleared, the connected set is empty, no session
\* has a socket open or connecting (also not one whose dial was in
\* progress), the scheduler is gone and the store is closed; and while the
\* 'stopped' announce is out the sessions are destroyed and the store is
\* open.
C27_StopLeavesNothing ==
  /\ (cl.stopAt = "done" /\ clHist.stopDuring = "done")
       => /\ cl.status = "stopped"
          /\ NoTimers
          /\ \A a \in Range(Addresses) : cl.connectedPeers[a] = NoObject
          /\ \A o \in Objects : cl.objs[o].sock \notin {"connecting", "open"}
          /\ cl.scheduler = "none"
          /\ cl.storage = "closed"
  /\ (\E i \in 1 .. Len(cl.pending) : cl.pending[i].by = "stop")
       => /\ cl.storage = "open"
          /\ \A a \in Range(Addresses) : cl.connectedPeers[a] = NoObject

\* C28: when the store is complete right after initialization, start() has
\* issued the event=completed announce and ends in status completed with no
\* scheduler, no timers and no sessions.
C28_AlreadyCompleteAnnounces ==
  (clHist.initComplete /\ cl.stopAt = "idle")
    => /\ Announced("completed") # {}
       /\ cl.status = "completed"
       /\ cl.scheduler = "none"
       /\ NoTimers
       /\ \A o \in Objects : cl.objs[o].sock = "none"

\* ------------------------------------------------------------------------
\* Properties of the scheduler's request tables and of its selection
\* ------------------------------------------------------------------------

\* C37: in every reachable state, before and during endgame, each request
\* id in the request set of a session has an entry in the active-request
\* table that is owned by that session.
C37_RequestIndicesConsistent ==
  \A s \in Sessions : \A id \in Range(peerRequests[s]) : activeRequests[id] = s

\* C40: once a session is out of the scheduler's peer set, a have,
\* bitfield, piece, choke or unchoke it emits later leaves the availability
\* map, the per-piece block state, the completed set and the request tables
\* as they are.
C40_RemovedSessionEventsIgnored ==
  [][\A s \in Sessions :
       (/\ eventCount' # eventCount
        /\ step'.s = s
        /\ step'.op \in {"have", "bitfield", "piece", "choke", "unchoke"}
        /\ s \notin peers)
       => UNCHANGED <<availabilityMap, pieceProgress, completedPieces,
                      activeRequests, peerRequests>>]_vars

\* C32: every request the scheduler sends goes to a session that, at the
\* moment of sending, is connected with its handshake complete and does not
\* choke us, and names a piece that is not in the completed set and whose
\* bit is set in the bitfield of that session.
C32_RequestsOnlyToServingSessions ==
  \A s \in Sessions : \A i \in 1 .. Len(RequestsSent(s)) :
    /\ isConnected(World, s)
    /\ ~sess[s].choked
    /\ RequestsSent(s)[i].index \notin completedPieces
    /\ RequestsSent(s)[i].index \in sess[s].bitfield

\* C32 witness: a pass has sent a request to one session and none to the
\* other, which has announced a piece that is not complete and chokes us.
C32_Witness ==
  \E s \in Sessions, t \in Sessions :
    /\ RequestsSent(s) # <<>>
    /\ RequestsSent(t) = <<>>
    /\ isConnected(World, t)
    /\ sess[t].choked
    /\ t \in peers
    /\ sess[t].bitfield \ completedPieces # {}

\* ------------------------------------------------------------------------
\* Properties of the session's event stream
\* ------------------------------------------------------------------------

\* C35: whatever the way the bytes a peer has sent were split into 'data'
\* events, the session has emitted the events it emits when the same bytes
\* arrive in one 'data' event, in the same order.
C35_EventsIndependentOfChunking ==
  (~conn.destroyed /\ ~conn.closed /\ connHist.stream # <<>>)
    => connHist.events = handleData(NewConn, connHist.stream).emitted

\* ---------------------------------------------------------------------
\* Properties of the scheduler before endgame
\* ---------------------------------------------------------------------

\* The sessions a request for this block has been written to and that have
\* neither answered it nor been sent a cancel for it.
Holders(id) == {s \in Sessions : outstanding[s][id] > 0}

\* C31: while endgame mode is off, no block (pieceIndex, begin) is
\* outstanding at two sessions at the same time.
C31_OneHolderBeforeEndgame ==
  ~endgameActive => \A id \in Ids : Cardinality(Holders(id)) <= 1

\* C34: a request written to a session for a block of a piece is for the
\* lowest needed offset of that piece: every needed block of the piece with a
\* lower offset has been requested from the session earlier in the same
\* pass, or is tracked as requested from that session.
C34_LowestNeededOffsetFirst ==
  \A s \in Sessions : \A i \in 1 .. Len(RequestsSent(s)) :
    LET r == RequestsSent(s)[i] IN
      pieceProgress[r.index] # NoProgress =>
        \A b \in Range(pieceProgress[r.index].availableBlocks) :
          b < r.begin =>
            \/ \E j \in 1 .. i - 1 :
                 /\ RequestsSent(s)[j].index = r.index
                 /\ RequestsSent(s)[j].begin = b
            \/ activeRequests[getRequestId(r.index, b)] = s

\* C36: every block of a piece that is not complete and that has not been
\* received is either in the needed set of its piece, which makes the piece
\* a candidate of the next pass, or has a tracked request, whose deadline
\* the maintenance timer watches.
C36_UnreceivedBlocksStayReachable ==
  \A id \in Ids :
    (/\ id[1] \notin completedPieces
     /\ pieceProgress[id[1]] # NoProgress
     /\ id[2] \notin DOMAIN pieceProgress[id[1]].receivedBlocks)
    => \/ id[2] \in Range(pieceProgress[id[1]].availableBlocks)
       \/ activeRequests[id] # None

\* C33: with the availability 0:1, 1:2, 2:1 of the two bitfields, the first
\* request written to A is for piece 0 and the first written to B is for
\* piece 2, and a request for piece 1 is written to a session only when
\* piece 0 or piece 2 is complete.  A session that chokes us has not been
\* sent a request yet, as no session chokes us a second time.
C33_RarestFirstScenario ==
  [][\A s \in Sessions :
       /\ (sess[s].choked /\ RequestsSent(s)' # <<>>)
            => RequestsSent(s)'[1].index = (IF s = "A" THEN 0 ELSE 2)
       /\ \A i \in 1 .. Len(RequestsSent(s)') :
            RequestsSent(s)'[i].index = 1 => completedPieces' \cap {0, 2} # {}]_vars

\* C33, as the code has it: the first request written to A is for piece 0
\* and the first written to B is for piece 2, and within one pass the
\* requests for piece 1 come after those for the rarer piece of the session.
\* Requests for piece 1 are written whenever the window has room left.
C33_RarestPieceFirst ==
  [][\A s \in Sessions :
       /\ (sess[s].choked /\ RequestsSent(s)' # <<>>)
            => RequestsSent(s)'[1].index = (IF s = "A" THEN 0 ELSE 2)
       /\ \A i \in 1 .. Len(RequestsSent(s)') : \A j \in 1 .. i - 1 :
            RequestsSent(s)'[i].index # 1 => RequestsSent(s)'[j].index # 1]_vars

\* C33 witness: both sessions have been sent requests, the last pass has
\* written a request for piece 1, and neither piece 0 nor piece 2 is complete.
C33_Witness ==
  /\ \A s \in Sessions : ~sess[s].choked /\ InFlight(s) > 0
  /\ \E s \in Sessions : \E i \in 1 .. Len(RequestsSent(s)) :
       RequestsSent(s)[i].index = 1
  /\ completedPieces = {}

\* ------------------------------------------------------------------------
\* Properties of the interest the client declares
\* ------------------------------------------------------------------------

\* C38: whenever a connected session has announced a piece that is not
\* complete, the we-are-interested flag of the session eventually becomes
\* true (sendInterested sets it when it writes the message).
C38_InterestedEventually ==
  \A s \in Sessions :
    (isConnected(World, s) /\ sess[s].bitfield \ completedPieces # {})
      ~> sess[s].interested

\* ------------------------------------------------------------------------
\* Properties of the dial timer
\* ------------------------------------------------------------------------

\* The addresses a PeerConnection has been created for.
Dialed(c) == {c.objs[o].address : o \in {x \in Objects : c.objs[x].sock # "none"}}

====
